---- MODULE Spec2Model ----
(***************************************************************************)
(* The migration dependency engine of django-4.0b1: the applied-record     *)
(* store (db/migrations/recorder.py), the loader that builds the           *)
(* dependency graph (db/migrations/loader.py) and the migrate command      *)
(* that computes and executes a plan (core/management/commands/migrate.py).*)
(* The graph (db/migrations/graph.py) and the executor                     *)
(* (db/migrations/executor.py) are modelled from their design description. *)
(***************************************************************************)
EXTENDS Integers, Sequences, FiniteSets, TLC

VARIABLES
    calls,            \* the recorder calls made: the last one, and per key the last that touched it
    config,           \* load_disk's classification of the apps, and the loader's arguments
    discovered,       \* the migration modules found on the apps' module paths, in path order
    stdout,           \* what --plan wrote: per plan entry, its operations' descriptions
    recorders,        \* recorder calls by connection: position, call, key and has_table() result
    settings,         \* django.conf.settings: wrapped object, cache, and what its reads depend on
    disk_migrations,  \* loader.disk_migrations: key -> migration unit read from disk
    disk_order,       \* iteration order of the disk_migrations dict
    options,          \* the command line of one run of the migrate command
    has_table,        \* the django_migrations table exists
    rows,             \* django_migrations: key -> number of rows with that (app, name)
    rows0,            \* the store content when the command started
    loader,           \* MigrationLoader: graph, applied_migrations, replacements
    pc,               \* position of Command.handle
    outcome,          \* how the command ended (the exception it raised, if any)
    culprit,          \* the keys the exception raised names: <<child, parent>>, or a cycle
    targets,          \* the targets handed to migration_plan
    plan,             \* the plan: sequence of <<key, backwards>>
    status,           \* per plan entry: PENDING, IN_PROGRESS, APPLIED, REVERTED, FAILED
    opi,              \* number of operations of the entry in progress already executed
    schema,           \* operation effects present in the database: set of <<key, i>>
    tx,               \* the scoped transactions (schema editors) open, and the savepoint
    round             \* 1: the command's plan; 2: the same entries reversed

vars == <<calls, config, discovered, stdout, recorders, settings, disk_migrations, disk_order, options, has_table, rows, rows0, loader,
          pc, outcome, culprit, targets, plan, status, opi, schema, tx, round>>

-----------------------------------------------------------------------------
(* Bounds and universe *)

\* number of operations of every migration unit
MaxOps == 2

\* the most rows of one (app, name) the recorder's callers insert
MaxRows == 2

None == "None"
FIRST == "__first__"
LATEST == "__latest__"

\* every string the model compares, in Python's str order
SortedStrings == <<"0001", "0001_squashed_0002", "0002", "0002_squashed_0002", "0003",
                   "None", "__first__", "__latest__", "auth", "books", "legacy", "zero">>

StrRank(s) == CHOOSE i \in 1..Len(SortedStrings) : SortedStrings[i] = s

\* the characters of the names and name prefixes used
Chars(s) ==
    CASE s = "0001" -> <<"0", "0", "0", "1">>
      [] s = "0002" -> <<"0", "0", "0", "2">>
      [] s = "0001_squashed_0002" ->
            <<"0", "0", "0", "1", "_", "s", "q", "u", "a", "s", "h", "e", "d", "_", "0", "0", "0", "2">>
      [] s = "0002_squashed_0002" ->
            <<"0", "0", "0", "2", "_", "s", "q", "u", "a", "s", "h", "e", "d", "_", "0", "0", "0", "2">>
      [] s = "0003" -> <<"0", "0", "0", "3">>
      [] s = "000" -> <<"0", "0", "0">>
      [] s = "0001_" -> <<"0", "0", "0", "1", "_">>
      [] s = "zero" -> <<"z", "e", "r", "o">>
      [] OTHER -> <<s>>

\* str.startswith
startswith(s, prefix) ==
    /\ Len(Chars(prefix)) <= Len(Chars(s))
    /\ SubSeq(Chars(s), 1, Len(Chars(prefix))) = Chars(prefix)

Apps == {"auth", "books"}

A1 == <<"auth", "0001">>
A2 == <<"auth", "0002">>
B1 == <<"books", "0001">>
B2 == <<"books", "0002">>
BS == <<"books", "0001_squashed_0002">>
BT == <<"books", "0002_squashed_0002">>

Keys == {A1, A2, B1, B2, BS, BT}

\* tuple comparison of (app_label, name)
KeyLess(a, b) ==
    \/ StrRank(a[1]) < StrRank(b[1])
    \/ a[1] = b[1] /\ StrRank(a[2]) < StrRank(b[2])

RECURSIVE sorted(_)
sorted(S) ==
    IF S = {} THEN <<>>
    ELSE LET m == CHOOSE x \in S : \A y \in S : y = x \/ KeyLess(x, y)
         IN <<m>> \o sorted(S \ {m})

Range(s) == {s[i] : i \in 1..Len(s)}

Reverse(s) == [i \in 1..Len(s) |-> s[Len(s) + 1 - i]]

-----------------------------------------------------------------------------
(* MigrationGraph: nodes, placeholder ("dummy") nodes and parent -> child edges *)

EmptyGraph == [node_map |-> {}, dummy |-> {}, edges |-> {}]

\* graph.nodes: every key of the graph, placeholders included
nodes(g) == g.node_map

parents(g, key) == {e[1] : e \in {x \in g.edges : x[2] = key}}

children(g, key) == {e[2] : e \in {x \in g.edges : x[1] = key}}

add_node(g, key) ==
    [g EXCEPT !.node_map = @ \cup {key}, !.dummy = @ \ {key}]

\* inserts the edge parent -> child; an endpoint not yet present becomes a placeholder
add_dependency(g, child, parent) ==
    [node_map |-> g.node_map \cup {child, parent},
     dummy |-> g.dummy \cup ({child, parent} \ g.node_map),
     edges |-> g.edges \cup {<<parent, child>>}]

\* deletes the replaced nodes; every edge that touched one of them now touches
\* the replacement, in its original direction; edges inside the replaced set vanish
remove_replaced_nodes(g, replacement, replaced) ==
    LET R == Range(replaced) \cap g.node_map
        kept == {e \in g.edges : e[1] \notin R /\ e[2] \notin R}
        down == {<<replacement, e[2]>> : e \in {x \in g.edges : x[1] \in R /\ x[2] \notin Range(replaced)}}
        up == {<<e[1], replacement>> : e \in {x \in g.edges : x[2] \in R /\ x[1] \notin Range(replaced)}}
    IN [node_map |-> g.node_map \ R,
        dummy |-> g.dummy \ R,
        edges |-> kept \cup down \cup up]

\* deletes the replacement node; its children become children of the last
\* element of the replaced keys
remove_replacement_node(g, replacement, replaced) ==
    LET last == replaced[Len(replaced)]
        kept == {e \in g.edges : e[1] # replacement /\ e[2] # replacement}
        down == IF last \in g.node_map \ {replacement}
                THEN {<<last, c>> : c \in children(g, replacement) \ {replacement}}
                ELSE {}
    IN [node_map |-> g.node_map \ {replacement},
        dummy |-> g.dummy \ {replacement},
        edges |-> kept \cup down]

\* validate_consistency raises NodeNotFoundError iff a placeholder is left
validate_consistency_fails(g) == g.dummy # {}

RECURSIVE Reach(_, _, _)
\* the nodes reachable from S along edges (forwards: towards the parents)
Reach(g, S, forwards) ==
    LET next == UNION {IF forwards THEN parents(g, k) ELSE children(g, k) : k \in S}
    IN IF next \subseteq S THEN S ELSE Reach(g, S \cup next, forwards)

Ancestors(g, key) == Reach(g, parents(g, key), TRUE)

Descendants(g, key) == Reach(g, children(g, key), FALSE)

\* ensure_not_cyclic raises CircularDependency iff some node reaches itself
ensure_not_cyclic_fails(g) == \E k \in g.node_map : k \in Ancestors(g, k)

RECURSIVE SimplePaths(_, _)
\* the paths of n distinct nodes along parent -> child edges
SimplePaths(g, n) ==
    IF n = 1 THEN {<<k>> : k \in g.node_map}
    ELSE {Append(x[1], x[2]) :
            x \in {y \in SimplePaths(g, n - 1) \X g.node_map :
                     /\ <<y[1][n - 1], y[2]>> \in g.edges
                     /\ \A i \in 1..(n - 1) : y[1][i] # y[2]}}

\* ensure_not_cyclic: the cycles the depth-first traversal can report, each the
\* part of its stack from the revisited node on; which one it meets depends on
\* the order in which it takes the nodes and their children
ensure_not_cyclic(g) ==
    {q \in UNION {SimplePaths(g, n) : n \in 1..Cardinality(g.node_map)} :
        <<q[Len(q)], q[1]>> \in g.edges}

\* nodes without a parent (child) in their own app, sorted by key
root_nodes(g, app) ==
    sorted({n \in g.node_map :
              /\ \A p \in parents(g, n) : p[1] # n[1]
              /\ (app = None \/ app = n[1])})

leaf_nodes(g, app) ==
    sorted({n \in g.node_map :
              /\ \A c \in children(g, n) : c[1] # n[1]
              /\ (app = None \/ app = n[1])})

InSeq(x, s) == \E i \in 1..Len(s) : s[i] = x

RECURSIVE dfs_preorder(_, _, _, _)
\* a search that emits a node when it first meets it, before what it leads to
dfs_preorder(g, stack, visited, forwards) ==
    IF stack = <<>> THEN visited
    ELSE LET top == stack[Len(stack)]
             rest == SubSeq(stack, 1, Len(stack) - 1)
             nbrs == sorted(IF forwards THEN parents(g, top[1]) ELSE children(g, top[1]))
         IN IF InSeq(top[1], visited) THEN dfs_preorder(g, rest, visited, forwards)
            ELSE dfs_preorder(g, rest \o [i \in 1..Len(nbrs) |-> <<nbrs[i], FALSE>>],
                              Append(visited, top[1]), forwards)

RECURSIVE dfs_loop(_, _, _, _)
\* the loop of the iterative depth-first search: a node is emitted after all the
\* nodes it leads to; neighbours are taken in sorted order
dfs_loop(g, stack, visited, forwards) ==
    IF stack = <<>> THEN visited
    ELSE LET top == stack[Len(stack)]
             rest == SubSeq(stack, 1, Len(stack) - 1)
             nbrs == sorted(IF forwards THEN parents(g, top[1]) ELSE children(g, top[1]))
         IN IF InSeq(top[1], visited) THEN dfs_loop(g, rest, visited, forwards)
            ELSE IF top[2] THEN dfs_loop(g, rest, Append(visited, top[1]), forwards)
            ELSE dfs_loop(g, rest \o <<<<top[1], TRUE>>>>
                                 \o [i \in 1..Len(nbrs) |-> <<nbrs[i], FALSE>>],
                          visited, forwards)

\* ancestors of target in dependency order, then target
forwards_plan(g, target) == dfs_loop(g, <<<<target, FALSE>>>>, <<>>, TRUE)

\* descendants of target, dependents first, then target
backwards_plan(g, target) == dfs_loop(g, <<<<target, FALSE>>>>, <<>>, FALSE)

-----------------------------------------------------------------------------
(* MigrationRecorder: the django_migrations table *)

\* rows of the table per key; a store is [has_table, rows]
NoRows == [k \in Keys |-> 0]

ensure_schema(S) == IF S.has_table THEN S ELSE [S EXCEPT !.has_table = TRUE]

applied_migrations(S) ==
    IF S.has_table THEN {k \in DOMAIN S.rows : S.rows[k] > 0} ELSE {}

\* a record_applied that creates the table and no row
record_applied_nothing(S, app, name) == ensure_schema(S)

record_applied(S, app, name) ==
    [ensure_schema(S) EXCEPT !.rows[<<app, name>>] = @ + 1]

\* a record_unapplied that deletes no row
record_unapplied_nothing(S, app, name) == ensure_schema(S)

\* a delete that removes one row of the key only
record_unapplied_one(S, app, name) ==
    [ensure_schema(S) EXCEPT !.rows[<<app, name>>] = IF @ > 0 THEN @ - 1 ELSE 0]

record_unapplied(S, app, name) ==
    [ensure_schema(S) EXCEPT !.rows[<<app, name>>] = 0]

flush(S) == [S EXCEPT !.rows = NoRows]

\* no recorder call made yet
NoCalls == [last |-> <<"none", <<None, None>>>>, of |-> [k \in Keys |-> "none"]]

\* the calls after one more call: flush touches every key
Called(c, op, key) ==
    [last |-> <<op, key>>,
     of |-> IF op = "flush" THEN [k \in Keys |-> "flush"] ELSE [c.of EXCEPT ![key] = op]]

-----------------------------------------------------------------------------
(* MigrationLoader *)

\* the loader the executor constructs: MigrationLoader(connection)
ignore_no_migrations == FALSE

replace_migrations == TRUE

\* what load_disk finds for the executor's loader: every app has a migrations package
ExecutorConfig ==
    [migrated_apps |-> Apps, unmigrated_apps |-> {},
     ignore_no_migrations |-> ignore_no_migrations]

NoKey == <<None, None>>

\* a check_key that lets a reference to an unknown app pass without an edge
check_key_unknown_ok(L, key, current_app) ==
    IF (key[2] # FIRST /\ key[2] # LATEST) \/ key \in nodes(L.graph)
    THEN [error |-> "ok", key |-> key]
    ELSE IF key[1] = current_app THEN [error |-> "ok", key |-> NoKey]
    ELSE IF key[1] \in L.unmigrated_apps THEN [error |-> "ok", key |-> NoKey]
    ELSE IF key[1] \in L.migrated_apps
    THEN LET found == IF key[2] = FIRST THEN root_nodes(L.graph, key[1])
                                        ELSE leaf_nodes(L.graph, key[1])
         IN IF found # <<>> THEN [error |-> "ok", key |-> found[1]]
            ELSE IF L.ignore_no_migrations THEN [error |-> "ok", key |-> NoKey]
            ELSE [error |-> "ValueError", key |-> NoKey]
    ELSE [error |-> "ok", key |-> NoKey]

\* check_key: the key itself, NoKey for "no edge", or an error
check_key(L, key, current_app) ==
    IF (key[2] # FIRST /\ key[2] # LATEST) \/ key \in nodes(L.graph)
    THEN [error |-> "ok", key |-> key]
    ELSE IF key[1] = current_app THEN [error |-> "ok", key |-> NoKey]
    ELSE IF key[1] \in L.unmigrated_apps THEN [error |-> "ok", key |-> NoKey]
    ELSE IF key[1] \in L.migrated_apps
    THEN LET found == IF key[2] = FIRST THEN root_nodes(L.graph, key[1])
                                        ELSE leaf_nodes(L.graph, key[1])
         IN IF found # <<>> THEN [error |-> "ok", key |-> found[1]]
            ELSE IF L.ignore_no_migrations THEN [error |-> "ok", key |-> NoKey]
            ELSE [error |-> "ValueError", key |-> NoKey]
    ELSE [error |-> "ValueError", key |-> NoKey]

RECURSIVE internal_loop(_, _, _, _)
internal_loop(L, key, deps, i) ==
    IF i > Len(deps) THEN L
    ELSE LET parent == deps[i]
             L1 == IF parent[1] = key[1] /\ parent[2] # FIRST
                   THEN [L EXCEPT !.graph = add_dependency(L.graph, key, parent)]
                   ELSE L
         IN internal_loop(L1, key, deps, i + 1)

add_internal_dependencies(L, key, migration) ==
    internal_loop(L, key, migration.dependencies, 1)

RECURSIVE external_parents(_, _, _, _)
external_parents(L, key, deps, i) ==
    IF i > Len(deps) \/ L.error # "ok" THEN L
    ELSE LET r == check_key(L, deps[i], key[1])
             L1 == IF key[1] = deps[i][1] THEN L
                   ELSE IF r.error # "ok" THEN [L EXCEPT !.error = r.error]
                   ELSE IF r.key # NoKey
                   THEN [L EXCEPT !.graph = add_dependency(L.graph, key, r.key)]
                   ELSE L
         IN external_parents(L1, key, deps, i + 1)

RECURSIVE external_children(_, _, _, _)
external_children(L, key, before, i) ==
    IF i > Len(before) \/ L.error # "ok" THEN L
    ELSE LET r == check_key(L, before[i], key[1])
             L1 == IF r.error # "ok" THEN [L EXCEPT !.error = r.error]
                   ELSE IF r.key # NoKey
                   THEN [L EXCEPT !.graph = add_dependency(L.graph, r.key, key)]
                   ELSE L
         IN external_children(L1, key, before, i + 1)

add_external_dependencies(L, key, migration) ==
    external_children(external_parents(L, key, migration.dependencies, 1),
                      key, migration.run_before, 1)

RECURSIVE add_nodes(_, _, _, _)
\* build_graph, first loop: a node per disk migration; note the replacing ones
add_nodes(L, disk, order, i) ==
    IF i > Len(order) THEN L
    ELSE add_nodes([L EXCEPT !.graph = add_node(L.graph, order[i]),
                             !.replacements =
                                 IF disk[order[i]].replaces # <<>>
                                 THEN Append(@, order[i]) ELSE @],
                   disk, order, i + 1)

RECURSIVE add_all_internal(_, _, _, _)
add_all_internal(L, disk, order, i) ==
    IF i > Len(order) THEN L
    ELSE add_all_internal(add_internal_dependencies(L, order[i], disk[order[i]]),
                          disk, order, i + 1)

RECURSIVE add_all_external(_, _, _, _)
add_all_external(L, disk, order, i) ==
    IF i > Len(order) \/ L.error # "ok" THEN L
    ELSE add_all_external(add_external_dependencies(L, order[i], disk[order[i]]),
                          disk, order, i + 1)

\* a replacement round that leaves a recorded squash in the applied set
replace_one_keep(L, key, migration) ==
    LET applied_statuses == [i \in 1..Len(migration.replaces) |->
                                migration.replaces[i] \in L.applied_migrations]
        all_applied == \A i \in DOMAIN applied_statuses : applied_statuses[i]
        any_applied == \E i \in DOMAIN applied_statuses : applied_statuses[i]
        applied1 == IF all_applied THEN L.applied_migrations \cup {key}
                    ELSE L.applied_migrations
    IN IF key \notin L.graph.node_map
       THEN [L EXCEPT !.applied_migrations = applied1, !.error = "NodeNotFoundError"]
       ELSE IF all_applied \/ ~any_applied
       THEN [L EXCEPT !.applied_migrations = applied1,
                      !.graph = remove_replaced_nodes(L.graph, key, migration.replaces)]
       ELSE [L EXCEPT !.applied_migrations = applied1,
                      !.graph = remove_replacement_node(L.graph, key, migration.replaces)]

\* a replacement round that substitutes the squash only when all it replaces is applied
replace_one_all_only(L, key, migration) ==
    LET applied_statuses == [i \in 1..Len(migration.replaces) |->
                                migration.replaces[i] \in L.applied_migrations]
        all_applied == \A i \in DOMAIN applied_statuses : applied_statuses[i]
        any_applied == \E i \in DOMAIN applied_statuses : applied_statuses[i]
        applied1 == IF all_applied THEN L.applied_migrations \cup {key}
                    ELSE L.applied_migrations \ {key}
    IN IF key \notin L.graph.node_map
       THEN [L EXCEPT !.applied_migrations = applied1, !.error = "NodeNotFoundError"]
       ELSE IF all_applied
       THEN [L EXCEPT !.applied_migrations = applied1,
                      !.graph = remove_replaced_nodes(L.graph, key, migration.replaces)]
       ELSE [L EXCEPT !.applied_migrations = applied1,
                      !.graph = remove_replacement_node(L.graph, key, migration.replaces)]

\* a replacement round that leaves a partially applied squash in the graph
replace_one_partial_kept(L, key, migration) ==
    LET applied_statuses == [i \in 1..Len(migration.replaces) |->
                                migration.replaces[i] \in L.applied_migrations]
        all_applied == \A i \in DOMAIN applied_statuses : applied_statuses[i]
        any_applied == \E i \in DOMAIN applied_statuses : applied_statuses[i]
        applied1 == IF all_applied THEN L.applied_migrations \cup {key}
                    ELSE L.applied_migrations \ {key}
    IN IF key \notin L.graph.node_map
       THEN [L EXCEPT !.applied_migrations = applied1, !.error = "NodeNotFoundError"]
       ELSE IF all_applied \/ ~any_applied
       THEN [L EXCEPT !.applied_migrations = applied1,
                      !.graph = remove_replaced_nodes(L.graph, key, migration.replaces)]
       ELSE [L EXCEPT !.applied_migrations = applied1]

\* build_graph, one round of the replacement loop
replace_one(L, key, migration) ==
    LET applied_statuses == [i \in 1..Len(migration.replaces) |->
                                migration.replaces[i] \in L.applied_migrations]
        all_applied == \A i \in DOMAIN applied_statuses : applied_statuses[i]
        any_applied == \E i \in DOMAIN applied_statuses : applied_statuses[i]
        applied1 == IF all_applied THEN L.applied_migrations \cup {key}
                    ELSE L.applied_migrations \ {key}
    IN IF key \notin L.graph.node_map
       THEN [L EXCEPT !.applied_migrations = applied1, !.error = "NodeNotFoundError"]
       ELSE IF all_applied \/ ~any_applied
       THEN [L EXCEPT !.applied_migrations = applied1,
                      !.graph = remove_replaced_nodes(L.graph, key, migration.replaces)]
       ELSE [L EXCEPT !.applied_migrations = applied1,
                      !.graph = remove_replacement_node(L.graph, key, migration.replaces)]

RECURSIVE replace_all(_, _, _)
replace_all(L, disk, i) ==
    IF i > Len(L.replacements) \/ L.error # "ok" THEN L
    ELSE replace_all(replace_one(L, L.replacements[i], disk[L.replacements[i]]), disk, i + 1)

\* a build that returns the graph without looking for cycles
build_graph_unchecked(cfg, disk, order, S, replace) ==
    LET L0 == [graph |-> EmptyGraph,
               applied_migrations |-> applied_migrations(S),
               replacements |-> <<>>,
               migrated_apps |-> cfg.migrated_apps,
               unmigrated_apps |-> cfg.unmigrated_apps,
               ignore_no_migrations |-> cfg.ignore_no_migrations,
               error |-> "ok"]
        L1 == add_nodes(L0, disk, order, 1)
        L2 == add_all_internal(L1, disk, order, 1)
        L3 == add_all_external(L2, disk, order, 1)
        L4 == IF replace /\ L3.error = "ok" THEN replace_all(L3, disk, 1) ELSE L3
    IN IF L4.error # "ok" THEN L4
       ELSE IF validate_consistency_fails(L4.graph) THEN [L4 EXCEPT !.error = "NodeNotFoundError"]
       ELSE L4

\* a build that returns the graph without validating its consistency
build_graph_unvalidated(cfg, disk, order, S, replace) ==
    LET L0 == [graph |-> EmptyGraph,
               applied_migrations |-> applied_migrations(S),
               replacements |-> <<>>,
               migrated_apps |-> cfg.migrated_apps,
               unmigrated_apps |-> cfg.unmigrated_apps,
               ignore_no_migrations |-> cfg.ignore_no_migrations,
               error |-> "ok"]
        L1 == add_nodes(L0, disk, order, 1)
        L2 == add_all_internal(L1, disk, order, 1)
        L3 == add_all_external(L2, disk, order, 1)
        L4 == IF replace /\ L3.error = "ok" THEN replace_all(L3, disk, 1) ELSE L3
    IN IF L4.error # "ok" THEN L4
       ELSE IF ensure_not_cyclic_fails(L4.graph) THEN [L4 EXCEPT !.error = "CircularDependency"]
       ELSE L4

\* a build that adds the cross-app edges before the same-app ones
build_graph_external_first(cfg, disk, order, S, replace) ==
    LET L0 == [graph |-> EmptyGraph,
               applied_migrations |-> applied_migrations(S),
               replacements |-> <<>>,
               migrated_apps |-> cfg.migrated_apps,
               unmigrated_apps |-> cfg.unmigrated_apps,
               ignore_no_migrations |-> cfg.ignore_no_migrations,
               error |-> "ok"]
        L1 == add_nodes(L0, disk, order, 1)
        L2 == add_all_external(L1, disk, order, 1)
        L3 == IF L2.error = "ok" THEN add_all_internal(L2, disk, order, 1) ELSE L2
        L4 == IF replace /\ L3.error = "ok" THEN replace_all(L3, disk, 1) ELSE L3
    IN IF L4.error # "ok" THEN L4
       ELSE IF validate_consistency_fails(L4.graph) THEN [L4 EXCEPT !.error = "NodeNotFoundError"]
       ELSE IF ensure_not_cyclic_fails(L4.graph) THEN [L4 EXCEPT !.error = "CircularDependency"]
       ELSE L4

\* build_graph: the loader after the call; error names the exception raised, if any
build_graph(cfg, disk, order, S, replace) ==
    LET L0 == [graph |-> EmptyGraph,
               applied_migrations |-> applied_migrations(S),
               replacements |-> <<>>,
               migrated_apps |-> cfg.migrated_apps,
               unmigrated_apps |-> cfg.unmigrated_apps,
               ignore_no_migrations |-> cfg.ignore_no_migrations,
               error |-> "ok"]
        L1 == add_nodes(L0, disk, order, 1)
        L2 == add_all_internal(L1, disk, order, 1)
        L3 == add_all_external(L2, disk, order, 1)
        L4 == IF replace /\ L3.error = "ok" THEN replace_all(L3, disk, 1) ELSE L3
    IN IF L4.error # "ok" THEN L4
       ELSE IF validate_consistency_fails(L4.graph) THEN [L4 EXCEPT !.error = "NodeNotFoundError"]
       ELSE IF ensure_not_cyclic_fails(L4.graph) THEN [L4 EXCEPT !.error = "CircularDependency"]
       ELSE L4

\* a history check without the exemption of squashes whose replaced keys are applied
check_consistent_history_strict(L, disk, S) ==
    LET applied == applied_migrations(S)
    IN {<<migration, parent>> \in applied \X nodes(L.graph) :
          /\ migration \in nodes(L.graph)
          /\ parent \in parents(L.graph, migration)
          /\ parent \notin applied}

\* check_consistent_history: the pairs <<migration, parent>> the loops can stop
\* at; which one comes first depends on the order of the rows read from the
\* store and on the order of a set of parents
check_consistent_history(L, disk, S) ==
    LET applied == applied_migrations(S)
    IN {<<migration, parent>> \in applied \X nodes(L.graph) :
          /\ migration \in nodes(L.graph)
          /\ parent \in parents(L.graph, migration)
          /\ parent \notin applied
          /\ ~ (/\ InSeq(parent, L.replacements)
                /\ \A m \in Range(disk[parent].replaces) : m \in applied)}

\* check_consistent_history raises InconsistentMigrationHistory
check_consistent_history_raises(L, disk, S) ==
    check_consistent_history(L, disk, S) # {}

\* a conflict report that lists every app that has a leaf
detect_conflicts_every(L) ==
    LET leaves == leaf_nodes(L.graph, None)
        conflicting_apps == {k[1] : k \in Range(leaves)}
    IN [a \in conflicting_apps |->
          LET ks == sorted({k \in Range(leaves) : k[1] = a})
          IN [i \in 1..Len(ks) |-> ks[i][2]]]

\* detect_conflicts: the apps with more than one leaf, each with its sorted leaf names
detect_conflicts(L) ==
    LET leaves == leaf_nodes(L.graph, None)
        conflicting_apps == {a \in {k[1] : k \in Range(leaves)} :
                               Cardinality({k \in Range(leaves) : k[1] = a}) > 1}
    IN [a \in conflicting_apps |->
          LET ks == sorted({k \in Range(leaves) : k[1] = a})
          IN [i \in 1..Len(ks) |-> ks[i][2]]]

\* get_migration_by_prefix: the keys on disk that match
prefix_results(disk, app_label, name_prefix) ==
    {k \in DOMAIN disk : k[1] = app_label /\ startswith(k[2], name_prefix)}

\* a lookup that takes one of the matches when several names match
get_migration_by_prefix_any(disk, app_label, name_prefix) ==
    LET results == prefix_results(disk, app_label, name_prefix)
    IN IF results = {} THEN [error |-> "KeyError", key |-> NoKey]
       ELSE [error |-> "ok", key |-> CHOOSE k \in results : TRUE]

\* get_migration_by_prefix: the key of the migration returned, or the error raised
get_migration_by_prefix(disk, app_label, name_prefix) ==
    LET results == prefix_results(disk, app_label, name_prefix)
    IN IF Cardinality(results) > 1 THEN [error |-> "AmbiguityError", key |-> NoKey]
       ELSE IF results = {} THEN [error |-> "KeyError", key |-> NoKey]
       ELSE [error |-> "ok", key |-> CHOOSE k \in results : TRUE]

-----------------------------------------------------------------------------
(* MigrationExecutor: plan computation *)

RECURSIVE extend(_, _, _, _)
\* an extend that appends the whole plan of the target, whatever is applied
\* and whatever the plan already holds
extend_untracked(P, ms, i, backwards) ==
    [plan |-> P.plan \o [j \in 1..(Len(ms) - i + 1) |-> <<ms[j + i - 1], backwards>>],
     applied |-> P.applied]

\* merges the plan ms of one target into the plan so far: the units of ms the
\* direction applies to in the applied set read at the start, an entry that
\* is already in the plan left out; P is [plan, applied]
extend(P, ms, i, backwards) ==
    IF i > Len(ms) THEN P
    ELSE IF /\ backwards <=> ms[i] \in P.applied
            /\ ~InSeq(<<ms[i], backwards>>, P.plan)
    THEN extend([P EXCEPT !.plan = Append(@, <<ms[i], backwards>>)], ms, i + 1, backwards)
    ELSE extend(P, ms, i + 1, backwards)

RECURSIVE extend_backwards(_, _, _, _)
\* the backward plan from each of the nodes ns, one after the other
extend_backwards(P, g, ns, i) ==
    IF i > Len(ns) THEN P
    ELSE extend_backwards(extend(P, backwards_plan(g, ns[i]), 1, TRUE), g, ns, i + 1)

\* the leaves of the app that are applied
applied_leaves(P, g, app) == SelectSeq(leaf_nodes(g, app), LAMBDA k : k \in P.applied)

\* a plan_target that rolls back to the target and leaves the target applied
plan_target_keep(P, g, target) ==
    IF target[2] = None
    THEN extend_backwards(P, g, applied_leaves(P, g, target[1]), 1)
    ELSE IF target \notin nodes(g)
    THEN P
    ELSE IF target \in P.applied
    THEN extend_backwards(P, g, sorted(children(g, target)), 1)
    ELSE extend(P, forwards_plan(g, target), 1, FALSE)

\* the sub-plan of one target
plan_target(P, g, target) ==
    IF target[2] = None
    THEN \* revert the entire app: the backward plan from every applied leaf
         extend_backwards(P, g, applied_leaves(P, g, target[1]), 1)
    ELSE IF target \notin nodes(g)
    THEN \* unreachable target: empty sub-plan
         P
    ELSE IF target \in P.applied
    THEN IF Descendants(g, target) \cap P.applied = {}
         THEN \* already satisfied: empty sub-plan
              P
         ELSE \* the applied descendants, down to and including the target
              extend(P, backwards_plan(g, target), 1, TRUE)
    ELSE extend(P, forwards_plan(g, target), 1, FALSE)

RECURSIVE plan_targets(_, _, _, _)
plan_targets(P, g, ts, i) ==
    IF i > Len(ts) THEN P
    ELSE plan_targets(plan_target(P, g, ts[i]), g, ts, i + 1)

migration_plan(L, ts) ==
    plan_targets([plan |-> <<>>, applied |-> L.applied_migrations], L.graph, ts, 1).plan

-----------------------------------------------------------------------------
(* Command.handle of migrate: from the command line to the targets *)

\* a lookup by name where "zero" is one more name
named_target_no_zero(L, disk, opts) ==
    LET results == prefix_results(disk, opts.app_label, opts.migration_name)
    IN IF Cardinality(results) # 1
       THEN [error |-> "CommandError", targets |-> <<>>]
       ELSE LET target == CHOOSE k \in results : TRUE
            IN IF target \notin nodes(L.graph) /\ InSeq(target, L.replacements)
               THEN [error |-> "ok",
                     targets |-> <<disk[target].replaces[Len(disk[target].replaces)]>>]
               ELSE [error |-> "ok", targets |-> <<target>>]

\* app_label and migration_name given: "zero" asks for the whole app to be
\* reverted, another name is looked up by prefix; a squash that is not in the
\* graph is replaced by the last migration it replaces
named_target(L, disk, opts) ==
    IF opts.migration_name = "zero"
    THEN [error |-> "ok", targets |-> <<<<opts.app_label, None>>>>]
    ELSE LET migration == get_migration_by_prefix(disk, opts.app_label, opts.migration_name)
         IN IF migration.error # "ok"
            THEN [error |-> "CommandError", targets |-> <<>>]
            ELSE LET target == migration.key
                 IN IF target \notin nodes(L.graph) /\ InSeq(target, L.replacements)
                    THEN [error |-> "ok",
                          targets |-> <<disk[target].replaces[Len(disk[target].replaces)]>>]
                    ELSE [error |-> "ok", targets |-> <<target>>]

\* a handle that ignores the migration name and takes the leaves of the app
handle_targets_leaves(L, disk, opts) ==
    IF /\ opts.app_label # None
       /\ \/ opts.app_label \notin L.migrated_apps \cup L.unmigrated_apps
          \/ opts.run_syncdb /\ opts.app_label \in L.migrated_apps
          \/ ~opts.run_syncdb /\ opts.app_label \notin L.migrated_apps
    THEN [error |-> "CommandError", targets |-> <<>>]
    ELSE IF opts.app_label # None
    THEN [error |-> "ok",
          targets |-> SelectSeq(leaf_nodes(L.graph, None),
                                LAMBDA key : key[1] = opts.app_label)]
    ELSE [error |-> "ok", targets |-> leaf_nodes(L.graph, None)]

\* the targets, or the CommandError raised while working them out
handle_targets(L, disk, opts) ==
    IF /\ opts.app_label # None
       /\ \/ opts.app_label \notin L.migrated_apps \cup L.unmigrated_apps
          \/ opts.run_syncdb /\ opts.app_label \in L.migrated_apps
          \/ ~opts.run_syncdb /\ opts.app_label \notin L.migrated_apps
    THEN [error |-> "CommandError", targets |-> <<>>]
    ELSE IF opts.app_label # None /\ opts.migration_name # None
    THEN named_target(L, disk, opts)
    ELSE IF opts.app_label # None
    THEN [error |-> "ok",
          targets |-> SelectSeq(leaf_nodes(L.graph, None),
                                LAMBDA key : key[1] = opts.app_label)]
    ELSE [error |-> "ok", targets |-> leaf_nodes(L.graph, None)]

-----------------------------------------------------------------------------
(* django.conf.settings: LazySettings over a wrapped settings object.
   Setting values are strings, written as sequences of path segments so that
   prefixing is concatenation; the cache is the instance __dict__ without its
   _wrapped entry. *)

SettingNames == {"STATIC_ROOT", "MEDIA_URL", "SECRET_KEY"}

PyNone == <<"None">>

\* getattr finds nothing
Absent == <<"AttributeError">>

SettingValues == {<<>>, <<"media/">>, <<"/", "media/">>, PyNone}

ScriptPrefixes == {<<"/">>, <<"/", "app/">>}

\* global_settings: STATIC_ROOT = None, MEDIA_URL = '', SECRET_KEY = ''
global_settings ==
    [name \in SettingNames |-> IF name = "STATIC_ROOT" THEN PyNone ELSE <<>>]

\* the wrapped object: empty, a Settings (every setting an instance attribute)
\* or a UserSettingsHolder over global_settings
EmptyWrapped == [kind |-> "empty", own |-> [name \in SettingNames |-> Absent], deleted |-> {}]

Settings(module) == [kind |-> "Settings", own |-> module, deleted |-> {}]

UserSettingsHolder == [kind |-> "UserSettingsHolder",
                       own |-> [name \in SettingNames |-> Absent], deleted |-> {}]

\* getattr(self._wrapped, name)
wrapped_getattr(w, name) ==
    IF w.own[name] # Absent THEN w.own[name]
    ELSE IF w.kind = "UserSettingsHolder" /\ name \notin w.deleted THEN global_settings[name]
    ELSE Absent

\* setattr(self._wrapped, name, value)
wrapped_setattr(w, name, value) ==
    [w EXCEPT !.own[name] = value, !.deleted = @ \ {name}]

\* delattr(self._wrapped, name): a Settings without the attribute raises
wrapped_delattr(w, name) ==
    IF w.kind = "UserSettingsHolder"
    THEN [error |-> "none",
          wrapped |-> [w EXCEPT !.own[name] = Absent, !.deleted = @ \cup {name}]]
    ELSE IF w.own[name] = Absent THEN [error |-> "AttributeError", wrapped |-> w]
    ELSE [error |-> "none", wrapped |-> [w EXCEPT !.own[name] = Absent]]

NoCache == [name \in {} |-> <<>>]

NoSettings ==
    [wrapped |-> EmptyWrapped, dict |-> NoCache, cached_with |-> NoCache,
     script_prefix |-> <<"/">>, environ |-> PyNone, raised |-> "none"]

\* the cache without one name
Pop(d, name) == [n \in DOMAIN d \ {name} |-> d[n]]

\* self._wrapped = value, through __setattr__: every cached value is cleared
set_wrapped(S, w) ==
    [S EXCEPT !.wrapped = w, !.dict = NoCache, !.cached_with = NoCache]

\* _setup: load the module DJANGO_SETTINGS_MODULE points to
_setup(S) ==
    IF S.environ = PyNone THEN [S EXCEPT !.raised = "ImproperlyConfigured"]
    ELSE [set_wrapped(S, Settings(S.environ)) EXCEPT !.raised = "none"]

\* value.startswith(('http://', 'https://', '/'))
absolute(value) == Len(value) > 0 /\ value[1] = "/"

_add_script_prefix(S, value) ==
    IF absolute(value) THEN value ELSE S.script_prefix \o value

\* a read that caches the value of the wrapped object as it is
cache_value(S, name, val) ==
    [state |-> [S EXCEPT !.dict = (name :> val) @@ S.dict,
                         !.cached_with = (name :> S.script_prefix) @@ S.cached_with,
                         !.raised = "none"],
     val |-> val]

\* __getattr__ once the wrapped object is set up
getattr_wrapped(S, name) ==
    LET val == wrapped_getattr(S.wrapped, name)
    IN IF val = Absent
       THEN [state |-> [S EXCEPT !.raised = "AttributeError"], val |-> Absent]
       ELSE IF name \in {"MEDIA_URL", "STATIC_URL"} /\ val # PyNone
       THEN cache_value(S, name, _add_script_prefix(S, val))
       ELSE IF name = "SECRET_KEY" /\ val \in {<<>>, PyNone}
       THEN [state |-> [S EXCEPT !.raised = "ImproperlyConfigured"], val |-> Absent]
       ELSE cache_value(S, name, val)

\* LazySettings.__getattr__, called when the name is not in __dict__
__getattr__(S, name) ==
    LET S1 == IF S.wrapped.kind = "empty" THEN _setup(S) ELSE S
    IN IF S1.wrapped.kind = "empty" THEN [state |-> S1, val |-> Absent]
       ELSE getattr_wrapped(S1, name)

\* settings.NAME: the instance __dict__ first, then __getattr__
read_setting(S, name) ==
    IF name \in DOMAIN S.dict
    THEN [state |-> [S EXCEPT !.raised = "none"], val |-> S.dict[name]]
    ELSE __getattr__(S, name)

\* a set that leaves the cached value of the name in place
setattr_keep_cache(S, name, value) ==
    LET S1 == IF S.wrapped.kind = "empty" THEN _setup(S) ELSE S
    IN IF S1.wrapped.kind = "empty" THEN S1
       ELSE [S1 EXCEPT !.wrapped = wrapped_setattr(@, name, value), !.raised = "none"]

\* LazySettings.__setattr__ for a setting: the cached value is dropped, then
\* the wrapped object, set up if need be, takes the value
__setattr__(S, name, value) ==
    LET S0 == [S EXCEPT !.dict = Pop(@, name), !.cached_with = Pop(@, name)]
        S1 == IF S0.wrapped.kind = "empty" THEN _setup(S0) ELSE S0
    IN IF S1.wrapped.kind = "empty" THEN S1
       ELSE [S1 EXCEPT !.wrapped = wrapped_setattr(@, name, value), !.raised = "none"]

\* LazySettings.__delattr__: the wrapped object first, then the cached value
__delattr__(S, name) ==
    LET S1 == IF S.wrapped.kind = "empty" THEN _setup(S) ELSE S
        d == wrapped_delattr(S1.wrapped, name)
    IN IF S1.wrapped.kind = "empty" THEN S1
       ELSE IF d.error # "none" THEN [S1 EXCEPT !.raised = d.error]
       ELSE [S1 EXCEPT !.wrapped = d.wrapped, !.dict = Pop(@, name),
                       !.cached_with = Pop(@, name), !.raised = "none"]

\* the options of a configure() call: names in call order and their values
ConfigureOptions ==
    {<<>>,
     <<<<"MEDIA_URL", <<"media/">>>>>>,
     <<<<"SECRET_KEY", <<"media/">>>>, <<"MEDIA_URL", <<"/", "media/">>>>>>,
     <<<<"STATIC_ROOT", <<"media/">>>>, <<"debug", <<>>>>>>}

RECURSIVE configure_holder(_, _, _)
\* the loop of configure over the options
configure_holder(holder, opts, i) ==
    IF i > Len(opts) THEN [error |-> "none", holder |-> holder]
    ELSE IF opts[i][1] \notin SettingNames THEN [error |-> "TypeError", holder |-> holder]
    ELSE configure_holder(wrapped_setattr(holder, opts[i][1], opts[i][2]), opts, i + 1)

\* LazySettings.configure(**options)
configure(S, opts) ==
    IF S.wrapped.kind # "empty" THEN [S EXCEPT !.raised = "RuntimeError"]
    ELSE LET h == configure_holder(UserSettingsHolder, opts, 1)
         IN IF h.error # "none" THEN [S EXCEPT !.raised = h.error]
            ELSE [set_wrapped(S, h.holder) EXCEPT !.raised = "none"]

-----------------------------------------------------------------------------
(* The inputs of one run *)

\* an operation: "code" has the attribute code (RunPython), "sql" the
\* attribute sql (RunSQL), "other" neither; the reverse_code or reverse_sql
\* of an operation without reverse effect is None
Operation(kind, reversible) == [kind |-> kind, reversible |-> reversible]

Operations == [i \in 1..MaxOps |-> Operation("other", TRUE)]

\* operations the first of which has no reverse effect
OperationsIrreversible ==
    [i \in 1..MaxOps |-> IF i = 1 THEN Operation("code", FALSE) ELSE Operation("other", TRUE)]

Migration(deps, replaces) ==
    [dependencies |-> deps, run_before |-> <<>>, replaces |-> replaces,
     operations |-> Operations, atomic |-> TRUE]

\* the migration files of the two apps: auth 0001, 0002 and books 0001, 0002,
\* and the same with a squash of the two books migrations where auth 0002
\* depends on auth 0001 and books 0001 on nothing
DiskSet ==
    LET plain == {[k \in {A1, A2, B1, B2} |->
                      CASE k = A1 -> Migration(<<>>, <<>>)
                        [] k = A2 -> Migration(a2, <<>>)
                        [] k = B1 -> Migration(b1, <<>>)
                        [] k = B2 -> Migration(b2, <<>>)] :
                   a2 \in {<<>>, <<A1>>, <<A1, B1>>},
                   b1 \in {<<>>, <<A1>>},
                   b2 \in {<<>>, <<B1>>, <<A2>>, <<B1, A2>>}}
    IN plain \cup
       {[k \in {A1, A2, B1, B2, BS} |->
            IF k = BS THEN Migration(bs, <<B1, B2>>) ELSE d[k]] :
        d \in {x \in plain : x[A2].dependencies = <<A1>> /\ x[B1].dependencies = <<>>},
        bs \in {<<>>, <<A1>>}}

\* every order of the elements of a set
Orderings(S) ==
    {f \in [1..Cardinality(S) -> S] : \A i, j \in DOMAIN f : i # j => f[i] # f[j]}

RECURSIVE AppByApp(_, _)
\* the keys of the disk, app after app in the order given, the names of one
\* app in any order
AppByApp(disk, apps) ==
    IF apps = <<>> THEN {<<>>}
    ELSE {names \o rest :
             names \in Orderings({k \in DOMAIN disk : k[1] = Head(apps)}),
             rest \in AppByApp(disk, Tail(apps))}

\* the orders in which the dict of disk migrations may be iterated: load_disk
\* fills it app by app in the order of INSTALLED_APPS, and inside an app in
\* the iteration order of a set of names
DiskOrders(disk) ==
    UNION {AppByApp(disk, apps) : apps \in Orderings({k[1] : k \in DOMAIN disk})}

OptionSet ==
    {[app_label |-> a, migration_name |-> n, run_syncdb |-> FALSE, plan |-> FALSE,
      check_unapplied |-> FALSE, fake |-> FALSE, fake_initial |-> FALSE] :
     a \in Apps \cup {None},
     n \in {None, "zero", "0001", "0002", "0001_squashed_0002"}}

\* a module found on an app's module path: its key, whether it defines a
\* Migration class, and the unit that class makes
Module(key, unit) == [key |-> key, has_migration |-> TRUE, unit |-> unit]

ModuleWithoutMigration(key) ==
    [key |-> key, has_migration |-> FALSE, unit |-> Migration(<<>>, <<>>)]

\* the modules a disk is read from: one per key, in the order of the dict
Discovered(disk, order) == [i \in 1..Len(order) |-> Module(order[i], disk[order[i]])]

\* the modules load_disk imports, as places in the sequence of modules found:
\* for every key the first place that has it
imported_modules(fnd) ==
    {i \in DOMAIN fnd : \A j \in 1..(i - 1) : fnd[j].key # fnd[i].key}

\* load_disk: every name found on an app's module path is imported once, from
\* the first place of the path that has it, and stored under (app_label, name)
load_disk(fnd) ==
    LET imported == imported_modules(fnd)
        bad == {i \in imported : ~fnd[i].has_migration}
        loaded == {i \in imported : \A b \in bad : i < b}
        module(k) == fnd[CHOOSE i \in loaded : fnd[i].key = k]
    IN [error |-> IF bad = {} THEN "ok" ELSE "BadMigrationError",
        disk |-> [k \in {fnd[i].key : i \in loaded} |-> module(k).unit]]

\* the keys of self.disk_migrations in the order load_disk stored them
load_order(fnd) ==
    LET imported == imported_modules(fnd)
        bad == {i \in imported : ~fnd[i].has_migration}
        loaded == {i \in imported : \A b \in bad : i < b}
    IN [p \in 1..Cardinality(loaded) |->
           fnd[CHOOSE i \in loaded : Cardinality({j \in loaded : j < i}) = p - 1].key]

NoLoader ==
    [graph |-> EmptyGraph, applied_migrations |-> {}, replacements |-> <<>>,
     migrated_apps |-> {}, unmigrated_apps |-> {},
     ignore_no_migrations |-> FALSE, error |-> "ok"]

NoTx == [open |-> 0, saved |-> {}]

\* a scope exit that leaves the transaction open
release_keep(t) == t

\* leaving the scope of a transaction
release(t) == [open |-> IF t.open > 0 THEN t.open - 1 ELSE 0, saved |-> {}]

Store == [has_table |-> has_table, rows |-> rows]

\* the effects of the operations of a unit
Effects(disk, key) == {<<key, j>> : j \in 1..Len(disk[key].operations)}

Init ==
    /\ calls = NoCalls
    /\ stdout = <<>>
    /\ recorders = <<>>
    /\ settings = NoSettings
    /\ config = ExecutorConfig
    /\ disk_migrations \in DiskSet
    /\ disk_order \in DiskOrders(disk_migrations)
    /\ discovered = Discovered(disk_migrations, disk_order)
    /\ options \in {o \in OptionSet : o.app_label = None => o.migration_name = None}
    /\ has_table \in BOOLEAN
    /\ rows \in {r \in [Keys -> {0, 1}] : r[BT] = 0}
    /\ ~has_table => rows = NoRows
    /\ rows0 = rows
    /\ loader = NoLoader
    /\ pc = "start"
    /\ outcome = "none"
    /\ culprit = <<>>
    /\ targets = <<>>
    /\ plan = <<>>
    /\ status = <<>>
    /\ opi = 0
    /\ schema = UNION {Effects(disk_migrations, k) :
                         k \in {x \in DOMAIN disk_migrations : rows[x] > 0}}
    /\ tx = NoTx
    /\ round = 1

-----------------------------------------------------------------------------
(* Command.handle, step by step *)

Raise(exc) == pc' = "error" /\ outcome' = exc

\* MigrationExecutor(connection): the loader builds the graph from disk and store
Construct ==
    /\ pc = "start"
    /\ loader' = build_graph(config, disk_migrations, disk_order, Store, replace_migrations)
    /\ IF loader'.error # "ok" THEN Raise(loader'.error)
       ELSE pc' = "loaded" /\ outcome' = outcome
    /\ IF loader'.error = "CircularDependency"
       THEN culprit' \in ensure_not_cyclic(loader'.graph)
       ELSE culprit' = culprit
    /\ UNCHANGED <<calls, config, discovered, stdout, recorders, settings, disk_migrations, disk_order, options, has_table, rows, rows0,
                   targets, plan, status, opi, schema, tx, round>>

\* executor.loader.check_consistent_history(connection)
CheckHistory ==
    /\ pc = "loaded"
    /\ IF check_consistent_history_raises(loader, disk_migrations, Store)
       THEN /\ Raise("InconsistentMigrationHistory")
            /\ culprit' \in check_consistent_history(loader, disk_migrations, Store)
       ELSE pc' = "checked" /\ outcome' = outcome /\ culprit' = culprit
    /\ UNCHANGED <<calls, config, discovered, stdout, recorders, settings, disk_migrations, disk_order, options, has_table, rows, rows0, loader,
                   targets, plan, status, opi, schema, tx, round>>

\* executor.loader.detect_conflicts()
DetectConflicts ==
    /\ pc = "checked"
    /\ IF DOMAIN detect_conflicts(loader) # {}
       THEN Raise("CommandError")
       ELSE pc' = "clear" /\ outcome' = outcome
    /\ UNCHANGED <<calls, culprit, config, discovered, stdout, recorders, settings, disk_migrations, disk_order, options, has_table, rows, rows0, loader,
                   targets, plan, status, opi, schema, tx, round>>

\* describe_operation: the prefix, the action appended to the operation's own
\* description, and is_error. The code or sql of the direction is the action;
\* it is None only backwards, for an operation without reverse effect
describe_operation(operation, backwards) ==
    LET action_is_none == /\ operation.kind \in {"code", "sql"}
                          /\ backwards
                          /\ ~operation.reversible
    IN [prefix |-> IF operation.kind = "other" /\ backwards THEN "Undo " ELSE "",
        action |-> IF action_is_none THEN "IRREVERSIBLE"
                   ELSE IF operation.kind = "other" THEN "" ELSE operation.kind,
        is_error |-> action_is_none]

\* the --plan output: every entry of the plan with every operation described
describe_plan(disk, p) ==
    [i \in DOMAIN p |->
        [migration |-> p[i][1], backwards |-> p[i][2],
         operations |-> [j \in DOMAIN disk[p[i][1]].operations |->
                            describe_operation(disk[p[i][1]].operations[j], p[i][2])]]]

\* a command that works out its plan as soon as the graph is loaded
ComputePlan_early ==
    /\ pc = "loaded"
    /\ LET t == handle_targets(loader, disk_migrations, options)
       IN IF t.error # "ok"
          THEN Raise(t.error) /\ UNCHANGED <<targets, plan, status>>
          ELSE /\ targets' = t.targets
               /\ plan' = migration_plan(loader, t.targets)
               /\ status' = [i \in 1..Len(plan') |-> "PENDING"]
               /\ pc' = "migrating"
               /\ outcome' = outcome
    /\ stdout' = stdout
    /\ UNCHANGED <<calls, culprit, config, discovered, recorders, settings, disk_migrations, disk_order, options, has_table, rows, rows0, loader,
                   opi, schema, tx, round>>

\* the targets of the command line and executor.migration_plan(targets)
ComputePlan ==
    /\ pc = "clear"
    /\ LET t == handle_targets(loader, disk_migrations, options)
       IN IF t.error # "ok"
          THEN Raise(t.error) /\ UNCHANGED <<targets, plan, status, stdout>>
          ELSE /\ targets' = t.targets
               /\ plan' = migration_plan(loader, t.targets)
               /\ status' = [i \in 1..Len(plan') |-> "PENDING"]
               /\ LET exit_dry == plan' # <<>> /\ options.check_unapplied
                  IN /\ stdout' = IF options.plan
                                  THEN describe_plan(disk_migrations, plan') ELSE stdout
                     /\ pc' = IF exit_dry THEN "exit"
                              ELSE IF options.plan THEN "planned" ELSE "migrating"
                     /\ outcome' = IF exit_dry THEN "SystemExit(1)" ELSE outcome
    /\ UNCHANGED <<calls, culprit, config, discovered, recorders, settings, disk_migrations, disk_order, options, has_table, rows, rows0, loader,
                   opi, schema, tx, round>>

-----------------------------------------------------------------------------
(* executor.migrate: the plan, one entry at a time *)

Finished(st) == st \in {"APPLIED", "REVERTED"}

\* the entry in progress, if any
Current == {i \in DOMAIN status : status[i] = "IN_PROGRESS"}

\* the migration has no dependency in its own app: the first of its app
initial(disk, key) ==
    \A d \in Range(disk[key].dependencies) : d[1] # key[1]

\* the table-existence probe: the table the unit creates is in the database
table_exists(sch, key) == <<key, 1>> \in sch

\* every operation of the unit has a reverse effect
reversible(disk, key) ==
    \A j \in DOMAIN disk[key].operations : disk[key].operations[j].reversible

\* a handle that never hands the fake flag to the executor
handle_fake_off(opts, pl) == FALSE

\* the fake argument of executor.migrate: the option, unless the plan is empty
handle_fake(opts, pl) == IF pl = <<>> THEN FALSE ELSE opts.fake

\* a handle that never hands the fake_initial flag to the executor
handle_fake_initial_off(opts, pl) == FALSE

\* the fake_initial argument of executor.migrate
handle_fake_initial(opts, pl) == IF pl = <<>> THEN FALSE ELSE opts.fake_initial

\* the entry is recorded without executing its operations: fake mode, or
\* fake_initial mode for the first migration of an app whose table exists
Faked(i) ==
    \/ handle_fake(options, plan)
    \/ /\ handle_fake_initial(options, plan)
       /\ ~plan[i][2]
       /\ initial(disk_migrations, plan[i][1])
       /\ table_exists(schema, plan[i][1])

\* a start that takes any pending entry, whatever the others are doing
StartEntry_any ==
    /\ pc = "migrating"
    /\ \E i \in DOMAIN status :
          /\ status[i] = "PENDING"
          /\ status' = [status EXCEPT ![i] = "IN_PROGRESS"]
          /\ tx' = IF disk_migrations[plan[i][1]].atomic /\ ~Faked(i)
                   THEN [open |-> tx.open + 1, saved |-> schema] ELSE tx
          /\ opi' = IF Faked(i) THEN Len(disk_migrations[plan[i][1]].operations) ELSE 0
    /\ UNCHANGED <<calls, culprit, config, discovered, stdout, recorders, settings, disk_migrations, disk_order, options, has_table, rows, rows0, loader,
                   pc, outcome, targets, plan, schema, round>>

\* an entry starts when every earlier entry is finished; a faked entry has
\* none of its operations left to execute and opens no transaction
StartEntry ==
    /\ pc = "migrating"
    /\ Current = {}
    /\ \E i \in DOMAIN status :
          /\ status[i] = "PENDING"
          /\ \A j \in 1..(i - 1) : Finished(status[j])
          /\ status' = [status EXCEPT ![i] = "IN_PROGRESS"]
          /\ tx' = IF disk_migrations[plan[i][1]].atomic /\ ~Faked(i)
                   THEN [open |-> tx.open + 1, saved |-> schema] ELSE tx
          /\ opi' = IF Faked(i) THEN Len(disk_migrations[plan[i][1]].operations) ELSE 0
    /\ UNCHANGED <<calls, culprit, config, discovered, stdout, recorders, settings, disk_migrations, disk_order, options, has_table, rows, rows0, loader,
                   pc, outcome, targets, plan, schema, round>>

\* the next operation of the entry in progress takes effect: forwards the
\* operations run first to last, backwards last to first
ExecOp ==
    /\ pc = "migrating"
    /\ \E i \in Current :
          LET key == plan[i][1]
              n == Len(disk_migrations[key].operations)
          IN /\ opi < n
             /\ plan[i][2] => reversible(disk_migrations, key)
             /\ schema' = IF plan[i][2] THEN schema \ {<<key, n - opi>>}
                          ELSE schema \cup {<<key, opi + 1>>}
    /\ opi' = opi + 1
    /\ UNCHANGED <<calls, culprit, config, discovered, stdout, recorders, settings, disk_migrations, disk_order, options, has_table, rows, rows0, loader,
                   pc, outcome, targets, plan, status, tx, round>>

\* the next operation of the entry in progress fails: the scoped transaction
\* rolls back and the run is aborted
FailOp ==
    /\ pc = "migrating"
    /\ \E i \in Current :
          /\ opi < Len(disk_migrations[plan[i][1]].operations)
          /\ plan[i][2] => reversible(disk_migrations, plan[i][1])
          /\ status' = [status EXCEPT ![i] = "FAILED"]
    /\ schema' = IF tx.open > 0 THEN tx.saved ELSE schema
    /\ tx' = release(tx)
    /\ pc' = "failed"
    /\ outcome' = "OperationFailure"
    /\ UNCHANGED <<calls, culprit, config, discovered, stdout, recorders, settings, disk_migrations, disk_order, options, has_table, rows, rows0, loader,
                   targets, plan, opi, round>>

\* a backward entry that reports a generic failure for a missing reverse effect
AbortIrreversible_generic ==
    /\ pc = "migrating"
    /\ \E i \in Current :
          /\ plan[i][2]
          /\ opi = 0
          /\ ~reversible(disk_migrations, plan[i][1])
          /\ status' = [status EXCEPT ![i] = "FAILED"]
    /\ tx' = release(tx)
    /\ pc' = "failed"
    /\ outcome' = "OperationFailure"
    /\ UNCHANGED <<calls, culprit, config, discovered, stdout, recorders, settings, disk_migrations, disk_order, options, has_table, rows, rows0, loader,
                   targets, plan, opi, schema, round>>

\* a backward entry one of whose operations has no reverse effect: the run is
\* aborted as irreversible before any reverse effect is executed
AbortIrreversible ==
    /\ pc = "migrating"
    /\ \E i \in Current :
          /\ plan[i][2]
          /\ opi = 0
          /\ ~reversible(disk_migrations, plan[i][1])
          /\ status' = [status EXCEPT ![i] = "FAILED"]
    /\ tx' = release(tx)
    /\ pc' = "failed"
    /\ outcome' = "IrreversibleError"
    /\ UNCHANGED <<calls, culprit, config, discovered, stdout, recorders, settings, disk_migrations, disk_order, options, has_table, rows, rows0, loader,
                   targets, plan, opi, schema, round>>

\* every operation of the entry succeeded: the unit is recorded
\* the entry whose operations are done is recorded and ends; recs is what
\* becomes of the recorder calls in progress
EntryRecorded(recs) ==
    /\ pc = "migrating"
    /\ recorders' = recs
    /\ \E i \in Current :
          LET key == plan[i][1]
              S == IF plan[i][2] THEN record_unapplied(Store, key[1], key[2])
                   ELSE record_applied(Store, key[1], key[2])
          IN /\ opi = Len(disk_migrations[key].operations)
             /\ has_table' = S.has_table
             /\ rows' = S.rows
             /\ calls' = Called(calls, IF plan[i][2] THEN "record_unapplied"
                                       ELSE "record_applied", key)
             /\ status' = [status EXCEPT ![i] = IF plan[i][2] THEN "REVERTED" ELSE "APPLIED"]
    /\ tx' = release(tx)
    /\ UNCHANGED <<culprit, config, discovered, stdout, settings, disk_migrations, disk_order, options, rows0, loader,
                   pc, outcome, targets, plan, opi, schema, round>>

\* the unit of the entry is recorded with nobody else at the database: the
\* statements of record_applied / record_unapplied follow each other
FinishEntry ==
    /\ pc = "migrating"
    /\ EntryRecorded(recorders)

\* the plan is exhausted
MigrateDone ==
    /\ pc = "migrating"
    /\ \A i \in DOMAIN status : Finished(status[i])
    /\ pc' = "done"
    /\ UNCHANGED <<calls, culprit, config, discovered, stdout, recorders, settings, disk_migrations, disk_order, options, has_table, rows, rows0, loader,
                   outcome, targets, plan, status, opi, schema, tx, round>>

Next ==
    \/ Construct
    \/ CheckHistory
    \/ DetectConflicts
    \/ ComputePlan
    \/ StartEntry
    \/ ExecOp
    \/ FailOp
    \/ FinishEntry
    \/ MigrateDone

Spec == Init /\ [][Next]_vars

\* executor.migrate called again with the entries of a forward plan in exactly
\* reversed order, each backwards
MigrateReversed ==
    /\ pc = "done"
    /\ round = 1
    /\ plan # <<>>
    /\ \A i \in DOMAIN plan : ~plan[i][2]
    /\ plan' = [i \in 1..Len(plan) |-> <<plan[Len(plan) + 1 - i][1], TRUE>>]
    /\ status' = [i \in 1..Len(plan) |-> "PENDING"]
    /\ round' = 2
    /\ pc' = "migrating"
    /\ UNCHANGED <<calls, culprit, config, discovered, stdout, recorders, settings, disk_migrations, disk_order, options, has_table, rows, rows0, loader,
                   outcome, targets, opi, schema, tx>>

NextRoundTrip == Next \/ MigrateReversed

-----------------------------------------------------------------------------
(* Runs with the execution modes: fake, fake_initial, units without a reverse
   effect, units that are not atomic, tables present without a record *)

MigrationExec(deps, irreversible, atomic) ==
    [dependencies |-> deps, run_before |-> <<>>, replaces |-> <<>>,
     operations |-> IF irreversible THEN OperationsIrreversible ELSE Operations,
     atomic |-> atomic]

DiskSetExec ==
    {[k \in {A1, A2, B1, B2} |->
         MigrationExec(CASE k = A1 -> <<>>
                         [] k = A2 -> <<A1>>
                         [] k = B1 -> <<>>
                         [] k = B2 -> b2,
                       k \in irr, atomic)] :
     b2 \in {<<B1, A2>>},
     irr \in {{}, {A2}, {B2}},
     atomic \in BOOLEAN}

OptionSetExec ==
    {[app_label |-> a, migration_name |-> n, run_syncdb |-> FALSE, plan |-> FALSE,
      check_unapplied |-> FALSE, fake |-> f, fake_initial |-> fi] :
     a \in Apps \cup {None},
     n \in {None, "zero", "0001", "0002"},
     f \in BOOLEAN, fi \in BOOLEAN}

InitExec ==
    /\ calls = NoCalls
    /\ stdout = <<>>
    /\ recorders = <<>>
    /\ settings = NoSettings
    /\ config = ExecutorConfig
    /\ disk_migrations \in DiskSetExec
    /\ disk_order \in DiskOrders(disk_migrations)
    /\ discovered = Discovered(disk_migrations, disk_order)
    /\ options \in {o \in OptionSetExec : o.app_label = None => o.migration_name = None}
    /\ has_table \in BOOLEAN
    /\ rows \in {r \in [Keys -> {0, 1}] : r[BS] = 0 /\ r[BT] = 0}
    /\ ~has_table => rows = NoRows
    /\ rows0 = rows
    /\ loader = NoLoader
    /\ pc = "start"
    /\ outcome = "none"
    /\ culprit = <<>>
    /\ targets = <<>>
    /\ plan = <<>>
    /\ status = <<>>
    /\ opi = 0
    /\ \E extra \in SUBSET {k \in {A1, B1, B2} : rows[k] = 0} :
          schema = UNION {Effects(disk_migrations, k) :
                            k \in {x \in DOMAIN disk_migrations : rows[x] > 0}}
                      \cup {<<k, 1>> : k \in extra}
    /\ tx = NoTx
    /\ round = 1

NextExec == Next \/ AbortIrreversible

-----------------------------------------------------------------------------
(* Runs over disks with a squash of the two books migrations that other
   migrations may depend on *)

DiskSetLoad ==
    {[k \in {A1, A2, B1, B2, BS} |->
         CASE k = A1 -> Migration(<<>>, <<>>)
           [] k = A2 -> Migration(a2, <<>>)
           [] k = B1 -> Migration(b1, <<>>)
           [] k = B2 -> Migration(b2, <<>>)
           [] k = BS -> Migration(bs, <<B1, B2>>)] :
     a2 \in {<<A1>>, <<A1, B1>>, <<A1, BS>>},
     b1 \in {<<>>, <<A1>>},
     b2 \in {<<B1>>, <<A2>>},
     bs \in {<<>>}}

OptionSetLoad ==
    {o \in OptionSet :
        <<o.app_label, o.migration_name>> \in
            {<<None, None>>, <<"books", "zero">>, <<"auth", "0002">>}}

InitLoad ==
    /\ calls = NoCalls
    /\ stdout = <<>>
    /\ recorders = <<>>
    /\ settings = NoSettings
    /\ config = ExecutorConfig
    /\ disk_migrations \in DiskSetLoad
    /\ disk_order \in DiskOrders(disk_migrations)
    /\ discovered = Discovered(disk_migrations, disk_order)
    /\ options \in OptionSetLoad
    /\ has_table \in BOOLEAN
    /\ rows \in {r \in [Keys -> {0, 1}] : r[BT] = 0}
    /\ ~has_table => rows = NoRows
    /\ rows0 = rows
    /\ loader = NoLoader
    /\ pc = "start"
    /\ outcome = "none"
    /\ culprit = <<>>
    /\ targets = <<>>
    /\ plan = <<>>
    /\ status = <<>>
    /\ opi = 0
    /\ schema = UNION {Effects(disk_migrations, k) :
                         k \in {x \in DOMAIN disk_migrations : rows[x] > 0}}
    /\ tx = NoTx
    /\ round = 1

SpecLoad == InitLoad /\ [][Next]_vars

(* The command with and without --check and --plan, over the same disks and
   stores. *)

OptionSetCheck ==
    {[o EXCEPT !.check_unapplied = c, !.plan = p] :
        o \in OptionSetLoad, c \in BOOLEAN, p \in BOOLEAN}

InitCheck ==
    /\ calls = NoCalls
    /\ stdout = <<>>
    /\ recorders = <<>>
    /\ settings = NoSettings
    /\ config = ExecutorConfig
    /\ disk_migrations \in DiskSetLoad
    /\ disk_order \in DiskOrders(disk_migrations)
    /\ discovered = Discovered(disk_migrations, disk_order)
    /\ options \in OptionSetCheck
    /\ has_table \in BOOLEAN
    /\ rows \in {r \in [Keys -> {0, 1}] : r[BT] = 0}
    /\ ~has_table => rows = NoRows
    /\ rows0 = rows
    /\ loader = NoLoader
    /\ pc = "start"
    /\ outcome = "none"
    /\ culprit = <<>>
    /\ targets = <<>>
    /\ plan = <<>>
    /\ status = <<>>
    /\ opi = 0
    /\ schema = UNION {Effects(disk_migrations, k) :
                         k \in {x \in DOMAIN disk_migrations : rows[x] > 0}}
    /\ tx = NoTx
    /\ round = 1

SpecCheck == InitCheck /\ [][Next]_vars

-----------------------------------------------------------------------------
(* Runs over disks with up to two squashes of books migrations *)

MigrationSet(f) == [k \in DOMAIN f |-> Migration(f[k][1], f[k][2])]

DiskSetSquashes ==
    LET one == {(A1 :> <<<<>>, <<>>>>) @@ (A2 :> <<a2, <<>>>>) @@ (B1 :> <<<<>>, <<>>>>)
                   @@ (B2 :> <<b2, <<>>>>) @@ (BS :> <<<<>>, <<B1, B2>>>>) :
                a2 \in {<<A1>>, <<A1, BS>>},
                b2 \in {<<B1>>, <<B1, A1>>}}
    IN {MigrationSet(f) : f \in one}
       \cup {MigrationSet(f @@ (BT :> <<<<>>, bt>>)) :
               f \in one, bt \in {<<B2>>, <<B1, B2>>}}

InitSquashes ==
    /\ calls = NoCalls
    /\ stdout = <<>>
    /\ recorders = <<>>
    /\ settings = NoSettings
    /\ config = ExecutorConfig
    /\ disk_migrations \in DiskSetSquashes
    /\ disk_order \in DiskOrders(disk_migrations)
    /\ discovered = Discovered(disk_migrations, disk_order)
    /\ options \in {o \in OptionSet : o.app_label = None /\ o.migration_name = None}
    /\ has_table \in BOOLEAN
    /\ rows \in [Keys -> {0, 1}]
    /\ ~has_table => rows = NoRows
    /\ rows0 = rows
    /\ loader = NoLoader
    /\ pc = "start"
    /\ outcome = "none"
    /\ culprit = <<>>
    /\ targets = <<>>
    /\ plan = <<>>
    /\ status = <<>>
    /\ opi = 0
    /\ schema = UNION {Effects(disk_migrations, k) :
                         k \in {x \in DOMAIN disk_migrations : rows[x] > 0}}
    /\ tx = NoTx
    /\ round = 1

SpecSquashes == InitSquashes /\ [][Next]_vars

(* The same disks and stores with a command line that names a squash *)

OptionSetSquashTarget ==
    {o \in OptionSet : /\ o.app_label = "books"
                       /\ o.migration_name \in {"0001_squashed_0002", "0002"}}

InitSquashTarget ==
    /\ calls = NoCalls
    /\ stdout = <<>>
    /\ recorders = <<>>
    /\ settings = NoSettings
    /\ config = ExecutorConfig
    /\ disk_migrations \in DiskSetSquashes
    /\ disk_order \in DiskOrders(disk_migrations)
    /\ discovered = Discovered(disk_migrations, disk_order)
    /\ options \in OptionSetSquashTarget
    /\ has_table \in BOOLEAN
    /\ rows \in [Keys -> {0, 1}]
    /\ ~has_table => rows = NoRows
    /\ rows0 = rows
    /\ loader = NoLoader
    /\ pc = "start"
    /\ outcome = "none"
    /\ culprit = <<>>
    /\ targets = <<>>
    /\ plan = <<>>
    /\ status = <<>>
    /\ opi = 0
    /\ schema = UNION {Effects(disk_migrations, k) :
                         k \in {x \in DOMAIN disk_migrations : rows[x] > 0}}
    /\ tx = NoTx
    /\ round = 1

SpecSquashTarget == InitSquashTarget /\ [][Next]_vars

-----------------------------------------------------------------------------
(* Runs over disks whose units declare first/latest dependencies, run_before,
   dependencies on missing units, cycles and a squash, with a third app that
   is empty, unmigrated or unknown *)

\* a migration with dependencies, run_before and replaces
MigrationGraphUnit(deps, before, replaces) ==
    [dependencies |-> deps, run_before |-> before, replaces |-> replaces,
     operations |-> Operations, atomic |-> TRUE]

\* an app without any migration unit on disk
Legacy == "legacy"

\* load_disk's result for the third app: a migrations package without units,
\* no migrations package, or an app that is not installed
ConfigSet ==
    {[migrated_apps |-> Apps \cup c[1], unmigrated_apps |-> c[2],
      ignore_no_migrations |-> i] :
        c \in {<<{}, {}>>, <<{Legacy}, {}>>, <<{}, {Legacy}>>}, i \in BOOLEAN}

DiskSetGraph ==
    LET units(a1, a2, rb, b1) ==
            (A1 :> MigrationGraphUnit(a1, <<>>, <<>>))
            @@ (A2 :> MigrationGraphUnit(a2, rb, <<>>))
            @@ (B1 :> MigrationGraphUnit(b1, <<>>, <<>>))
        base == {units(a1, a2, rb, b1) :
                   a1 \in {<<>>, <<A2>>, <<A1>>, <<<<"books", FIRST>>>>},
                   a2 \in {<<>>, <<A1>>, <<A1, B1>>, <<A1, B2>>},
                   rb \in {<<>>, <<<<"books", FIRST>>>>, <<<<Legacy, "0001">>>>},
                   b1 \in {<<>>, <<<<"auth", FIRST>>>>, <<<<"auth", LATEST>>>>,
                           <<<<Legacy, FIRST>>>>, <<<<Legacy, LATEST>>>>,
                           <<<<"books", FIRST>>>>, <<<<"books", LATEST>>>>,
                           <<<<"auth", "0003">>>>}}
        plain == {d \in base : d[A1].dependencies = <<>> /\ d[A2].run_before = <<>>}
        second == {d @@ (B2 :> MigrationGraphUnit(b2, <<>>, <<>>)) :
                     d \in plain,
                     b2 \in {<<B1>>, <<B1, A2>>, <<B1, <<"auth", LATEST>>>>,
                             <<B1, <<Legacy, LATEST>>>>}}
        squashed == {d @@ (BS :> MigrationGraphUnit(<<>>, <<>>, <<B1, B2>>)) :
                       d \in plain \cup {x \in second : x[B2].dependencies = <<B1>>}}
    IN base \cup second \cup squashed

InitGraph ==
    /\ calls = NoCalls
    /\ stdout = <<>>
    /\ recorders = <<>>
    /\ settings = NoSettings
    /\ config \in ConfigSet
    /\ disk_migrations \in DiskSetGraph
    /\ disk_order \in DiskOrders(disk_migrations)
    /\ discovered = Discovered(disk_migrations, disk_order)
    /\ options \in {o \in OptionSet : o.app_label = None /\ o.migration_name = None}
    /\ has_table \in BOOLEAN
    /\ rows \in {NoRows,
                 [k \in Keys |-> IF k = B1 THEN 1 ELSE 0],
                 [k \in Keys |-> IF k \in {A1, A2, B1, B2} THEN 1 ELSE 0]}
    /\ ~has_table => rows = NoRows
    /\ rows0 = rows
    /\ loader = NoLoader
    /\ pc = "start"
    /\ outcome = "none"
    /\ culprit = <<>>
    /\ targets = <<>>
    /\ plan = <<>>
    /\ status = <<>>
    /\ opi = 0
    /\ schema = UNION {Effects(disk_migrations, k) :
                         k \in {x \in DOMAIN disk_migrations : rows[x] > 0}}
    /\ tx = NoTx
    /\ round = 1

SpecGraph == InitGraph /\ [][Next]_vars

(* Disks whose units declare run_before, inside one app and across apps, next
   to first/latest dependencies of another app *)

DiskSetRunBefore ==
    {[k \in {A1, A2, B1, B2} |->
         CASE k = A1 -> MigrationGraphUnit(<<>>, a1b, <<>>)
           [] k = A2 -> MigrationGraphUnit(a2, a2b, <<>>)
           [] k = B1 -> MigrationGraphUnit(b1, b1b, <<>>)
           [] k = B2 -> MigrationGraphUnit(<<B1>>, <<>>, <<>>)] :
     a1b \in {<<>>, <<A2>>},
     a2 \in {<<>>, <<A1>>},
     a2b \in {<<>>, <<A1>>},
     b1 \in {<<>>, <<<<"auth", FIRST>>>>, <<<<"auth", LATEST>>>>},
     b1b \in {<<>>, <<A1>>}}

InitRunBefore ==
    /\ calls = NoCalls
    /\ stdout = <<>>
    /\ recorders = <<>>
    /\ settings = NoSettings
    /\ config = ExecutorConfig
    /\ disk_migrations \in DiskSetRunBefore
    /\ disk_order \in DiskOrders(disk_migrations)
    /\ discovered = Discovered(disk_migrations, disk_order)
    /\ options \in {o \in OptionSet : o.app_label = None /\ o.migration_name = None}
    /\ has_table \in BOOLEAN
    /\ rows \in {NoRows,
                 [k \in Keys |-> IF k = B1 THEN 1 ELSE 0],
                 [k \in Keys |-> IF k \in {A1, A2, B1, B2} THEN 1 ELSE 0]}
    /\ ~has_table => rows = NoRows
    /\ rows0 = rows
    /\ loader = NoLoader
    /\ pc = "start"
    /\ outcome = "none"
    /\ culprit = <<>>
    /\ targets = <<>>
    /\ plan = <<>>
    /\ status = <<>>
    /\ opi = 0
    /\ schema = UNION {Effects(disk_migrations, k) :
                         k \in {x \in DOMAIN disk_migrations : rows[x] > 0}}
    /\ tx = NoTx
    /\ round = 1

SpecRunBefore == InitRunBefore /\ [][Next]_vars

-----------------------------------------------------------------------------
(* Runs that start with load_disk, over module paths on which a name can be
   found in two places *)

\* the places of the module path that hold a name, per key: auth 0001; books
\* 0001 once, twice with different contents, or without a Migration class;
\* books 0002 once, twice or not at all; the squash in a second place
FoundFiles ==
    {(A1 :> <<Module(A1, Migration(<<>>, <<>>))>>) @@ (B1 :> b1) @@ b2 :
        b1 \in {<<Module(B1, Migration(<<>>, <<>>))>>,
                <<Module(B1, Migration(<<>>, <<>>)), Module(B1, Migration(<<A1>>, <<>>))>>,
                <<Module(B1, Migration(<<A1>>, <<>>)), Module(B1, Migration(<<>>, <<>>))>>,
                <<ModuleWithoutMigration(B1)>>,
                <<Module(B1, Migration(<<>>, <<>>)), ModuleWithoutMigration(B1)>>},
        b2 \in {<<>>,
                (B2 :> <<Module(B2, Migration(<<B1>>, <<>>))>>),
                (B2 :> <<Module(B2, Migration(<<B1>>, <<>>)),
                         Module(B2, Migration(<<B1, A1>>, <<>>))>>),
                (B2 :> <<Module(B2, Migration(<<B1>>, <<>>))>>)
                   @@ (BS :> <<Module(BS, Migration(<<>>, <<B1, B2>>))>>)}}

RECURSIVE Found(_, _)
\* the modules in the order load_disk meets them: the names in the order
\* given, the places of one name in the order of the module path
Found(files, order) ==
    IF order = <<>> THEN <<>>
    ELSE files[Head(order)] \o Found(files, Tail(order))

\* the modules found, app by app, the names of an app in the iteration order
\* of the set of names
FoundSet == UNION {{Found(files, order) : order \in DiskOrders(files)} : files \in FoundFiles}

\* names and name prefixes given on the command line
Prefixes == {"000", "0001", "0001_", "0002", "0003"}

OptionSetDisk ==
    {[app_label |-> a, migration_name |-> n, run_syncdb |-> FALSE, plan |-> FALSE,
      check_unapplied |-> FALSE, fake |-> FALSE, fake_initial |-> FALSE] :
     a \in {"books"}, n \in Prefixes}
    \cup {o \in OptionSet : o.app_label = None /\ o.migration_name = None}

InitDisk ==
    /\ calls = NoCalls
    /\ stdout = <<>>
    /\ recorders = <<>>
    /\ settings = NoSettings
    /\ config = ExecutorConfig
    /\ discovered \in FoundSet
    /\ disk_migrations = <<>>
    /\ disk_order = <<>>
    /\ options \in OptionSetDisk
    /\ has_table = FALSE
    /\ rows = NoRows
    /\ rows0 = rows
    /\ loader = NoLoader
    /\ pc = "discover"
    /\ outcome = "none"
    /\ culprit = <<>>
    /\ targets = <<>>
    /\ plan = <<>>
    /\ status = <<>>
    /\ opi = 0
    /\ schema = {}
    /\ tx = NoTx
    /\ round = 1

\* build_graph's first statement: self.load_disk()
LoadDisk ==
    /\ pc = "discover"
    /\ LET r == load_disk(discovered)
       IN /\ disk_migrations' = r.disk
          /\ disk_order' = load_order(discovered)
          /\ IF r.error # "ok" THEN Raise(r.error)
             ELSE pc' = "start" /\ outcome' = outcome
    /\ UNCHANGED <<calls, culprit, config, discovered, stdout, recorders, settings, options, has_table, rows, rows0, loader,
                   targets, plan, status, opi, schema, tx, round>>

NextDisk == Next \/ LoadDisk

SpecDisk == InitDisk /\ [][NextDisk]_vars

SpecExec == InitExec /\ [][NextExec]_vars

(* The command with and without --plan over units whose operations are of
   every kind describe_operation tells apart, with and without reverse
   effect. *)

OperationSet == {Operation(kind, r) : kind \in {"code", "sql", "other"}, r \in BOOLEAN}

DiskSetPlan ==
    {[k \in {A1, B1, B2} |->
         [dependencies |-> IF k = B2 THEN <<B1>> ELSE <<>>,
          run_before |-> <<>>, replaces |-> <<>>,
          operations |-> CASE k = A1 -> Operations
                           [] k = B1 -> b1
                           [] k = B2 -> b2,
          atomic |-> TRUE]] :
     b1 \in {Operations, OperationsIrreversible},
     b2 \in [1..MaxOps -> OperationSet]}

OptionSetPlan ==
    {[o EXCEPT !.check_unapplied = c, !.plan = p] :
        o \in {x \in OptionSet : <<x.app_label, x.migration_name>> \in
                   {<<None, None>>, <<"books", "zero">>, <<"books", "0001">>}},
        c \in BOOLEAN, p \in BOOLEAN}

InitPlan ==
    /\ calls = NoCalls
    /\ stdout = <<>>
    /\ recorders = <<>>
    /\ settings = NoSettings
    /\ config = ExecutorConfig
    /\ disk_migrations \in DiskSetPlan
    /\ disk_order \in DiskOrders(disk_migrations)
    /\ discovered = Discovered(disk_migrations, disk_order)
    /\ options \in OptionSetPlan
    /\ has_table = TRUE
    /\ rows \in {[k \in Keys |-> IF k \in ap THEN 1 ELSE 0] :
                   ap \in {{}, {B1}, {B1, B2}, {A1, B1, B2}}}
    /\ rows0 = rows
    /\ loader = NoLoader
    /\ pc = "start"
    /\ outcome = "none"
    /\ culprit = <<>>
    /\ targets = <<>>
    /\ plan = <<>>
    /\ status = <<>>
    /\ opi = 0
    /\ schema = UNION {Effects(disk_migrations, k) :
                         k \in {x \in DOMAIN disk_migrations : rows[x] > 0}}
    /\ tx = NoTx
    /\ round = 1

SpecPlan == InitPlan /\ [][NextExec]_vars

(* The recorder used directly by one or two connections: any sequence of
   ensure_schema, record_applied, record_unapplied and flush calls, on a
   database with or without the django_migrations table. A record call is up
   to three calls to the database with nothing held between them:
   ensure_schema's has_table(), its create_model when the table was not seen,
   and the insert or the delete of rows. *)

RecorderKeys == {A1, A2, B1}

Invocations == {"first", "second"}

\* the connection of the migrate command
Command == "command"

\* a connection on which no call was made
Idle == [pc |-> "idle", seen |-> FALSE, op |-> "none", key |-> <<None, None>>]

InitRecorder ==
    /\ calls = NoCalls
    /\ stdout = <<>>
    /\ recorders \in {[p \in ps |-> Idle] : ps \in {{"first"}, Invocations}}
    /\ settings = NoSettings
    /\ config = ExecutorConfig
    /\ discovered = <<>>
    /\ disk_migrations = <<>>
    /\ disk_order = <<>>
    /\ options = [app_label |-> None, migration_name |-> None]
    /\ has_table \in BOOLEAN
    /\ rows = NoRows
    /\ rows0 = rows
    /\ loader = NoLoader
    /\ pc = "recorder"
    /\ outcome = "none"
    /\ culprit = <<>>
    /\ targets = <<>>
    /\ plan = <<>>
    /\ status = <<>>
    /\ opi = 0
    /\ schema = {}
    /\ tx = NoTx
    /\ round = 1

\* the recorder's call leaves the store S
Recorded(S, op, key) ==
    /\ has_table' = S.has_table
    /\ rows' = S.rows
    /\ calls' = Called(calls, op, key)

\* what a step of one connection leaves alone
RaceFrame ==
    UNCHANGED <<culprit, config, discovered, stdout, settings, disk_migrations, disk_order,
                options, rows0, loader, pc, outcome, targets, plan, status, opi, schema, tx, round>>

\* a connection that is in no call enters one
StartCall(op, keys) ==
    /\ \E p \in DOMAIN recorders, k \in keys :
          /\ recorders[p].pc \in {"idle", "done", "MigrationSchemaMissing"}
          /\ recorders' = [recorders EXCEPT
                              ![p] = [pc |-> "call", seen |-> FALSE, op |-> op, key |-> k]]
    /\ UNCHANGED <<calls, has_table, rows>>
    /\ RaceFrame

\* MigrationRecorder.record_applied(app, name) is called
RecordApplied ==
    /\ pc = "recorder"
    /\ StartCall("record_applied", RecorderKeys)

\* MigrationRecorder.record_unapplied(app, name) is called
RecordUnapplied ==
    /\ pc = "recorder"
    /\ StartCall("record_unapplied", RecorderKeys)

\* MigrationRecorder.ensure_schema() is called
CallEnsureSchema ==
    /\ pc = "recorder"
    /\ StartCall("ensure_schema", {<<None, None>>})

\* ensure_schema: self.has_table()
HasTable ==
    /\ \E p \in DOMAIN recorders :
          /\ recorders[p].pc = "call"
          /\ recorders' = [recorders EXCEPT ![p].pc = "checked", ![p].seen = has_table]
    /\ UNCHANGED <<calls, has_table, rows>>
    /\ RaceFrame

\* ensure_schema after has_table(): return if the table was seen, else
\* create_model; creating a table that exists by now is a DatabaseError, which
\* ensure_schema raises as MigrationSchemaMissing (in the migrate command's own
\* call the exception leaves handle: RecordRaises)
EnsureSchema ==
    /\ \E p \in DOMAIN recorders :
          LET after == IF recorders[p].op = "ensure_schema" THEN "done" ELSE "ensured"
          IN /\ recorders[p].pc = "checked"
             /\ p = Command => (recorders[p].seen \/ ~has_table)
             /\ IF recorders[p].seen
                THEN /\ recorders' = [recorders EXCEPT ![p].pc = after, ![p].seen = FALSE]
                     /\ has_table' = has_table
                ELSE IF has_table
                THEN /\ recorders' = [recorders EXCEPT ![p].pc = "MigrationSchemaMissing"]
                     /\ has_table' = has_table
                ELSE /\ recorders' = [recorders EXCEPT ![p].pc = after]
                     /\ has_table' = TRUE
    /\ UNCHANGED <<calls, rows>>
    /\ RaceFrame

\* record_applied after ensure_schema: migration_qs.create(app=app, name=name)
\* (the migrate command's own insert or delete ends its entry: FinishRecorded)
CreateRow ==
    /\ \E p \in DOMAIN recorders :
          LET k == recorders[p].key
          IN /\ p # Command
             /\ recorders[p].pc = "ensured"
             /\ recorders[p].op = "record_applied"
             /\ rows[k] < MaxRows
             /\ Recorded(record_applied(Store, k[1], k[2]), "record_applied", k)
             /\ recorders' = [recorders EXCEPT ![p].pc = "done"]
    /\ RaceFrame

\* record_unapplied after ensure_schema:
\* migration_qs.filter(app=app, name=name).delete()
DeleteRows ==
    /\ \E p \in DOMAIN recorders :
          LET k == recorders[p].key
          IN /\ p # Command
             /\ recorders[p].pc = "ensured"
             /\ recorders[p].op = "record_unapplied"
             /\ Recorded(record_unapplied(Store, k[1], k[2]), "record_unapplied", k)
             /\ recorders' = [recorders EXCEPT ![p].pc = "done"]
    /\ RaceFrame

\* MigrationRecorder.flush(): the delete needs the table, a flush without it
\* raises the database's error and changes nothing
Flush ==
    /\ pc = "recorder"
    /\ has_table
    /\ Recorded(flush(Store), "flush", <<None, None>>)
    /\ UNCHANGED recorders
    /\ RaceFrame

NextRecorder ==
    \/ RecordApplied
    \/ RecordUnapplied
    \/ CallEnsureSchema
    \/ HasTable
    \/ EnsureSchema
    \/ CreateRow
    \/ DeleteRows
    \/ Flush

SpecRecorder == InitRecorder /\ [][NextRecorder]_vars

(* Two engine invocations, each with its own connection, call record_applied
   for different migrations at the same time. *)

InitRace ==
    /\ calls = NoCalls
    /\ stdout = <<>>
    /\ recorders \in {[p \in Invocations |->
                          [pc |-> "call", seen |-> FALSE, op |-> "record_applied",
                           key |-> IF p = "first" THEN ks[1] ELSE ks[2]]] :
                      ks \in {x \in RecorderKeys \X RecorderKeys : x[1] # x[2]}}
    /\ settings = NoSettings
    /\ config = ExecutorConfig
    /\ discovered = <<>>
    /\ disk_migrations = <<>>
    /\ disk_order = <<>>
    /\ options = [app_label |-> None, migration_name |-> None]
    /\ has_table \in BOOLEAN
    /\ rows = NoRows
    /\ rows0 = rows
    /\ loader = NoLoader
    /\ pc = "recorder"
    /\ outcome = "none"
    /\ culprit = <<>>
    /\ targets = <<>>
    /\ plan = <<>>
    /\ status = <<>>
    /\ opi = 0
    /\ schema = {}
    /\ tx = NoTx
    /\ round = 1

NextRace == HasTable \/ EnsureSchema \/ CreateRow

SpecRace == InitRace /\ [][NextRace]_vars

(* The settings object used on its own: reads, sets and deletes of settings,
   replacements of the wrapped object, configure() calls, and changes of the
   script prefix. *)

\* the settings module DJANGO_SETTINGS_MODULE points to, global settings included
ModuleSettings ==
    [name \in SettingNames |->
        CASE name = "STATIC_ROOT" -> PyNone
          [] name = "MEDIA_URL" -> <<"media/">>
          [] name = "SECRET_KEY" -> <<"/", "media/">>]

\* the objects a caller puts in place of the wrapped one
Replacements ==
    {EmptyWrapped, Settings(ModuleSettings),
     wrapped_setattr(UserSettingsHolder, "SECRET_KEY", <<"media/">>)}

InitSettings ==
    /\ calls = NoCalls
    /\ stdout = <<>>
    /\ recorders = <<>>
    /\ settings \in {[NoSettings EXCEPT !.environ = e] : e \in {PyNone, ModuleSettings}}
    /\ config = ExecutorConfig
    /\ discovered = <<>>
    /\ disk_migrations = <<>>
    /\ disk_order = <<>>
    /\ options = [app_label |-> None, migration_name |-> None]
    /\ has_table = FALSE
    /\ rows = NoRows
    /\ rows0 = rows
    /\ loader = NoLoader
    /\ pc = "settings"
    /\ outcome = "none"
    /\ culprit = <<>>
    /\ targets = <<>>
    /\ plan = <<>>
    /\ status = <<>>
    /\ opi = 0
    /\ schema = {}
    /\ tx = NoTx
    /\ round = 1

\* what a use of the settings object leaves alone
SettingsFrame ==
    UNCHANGED <<calls, culprit, config, discovered, stdout, recorders, disk_migrations,
                disk_order, options, has_table, rows, rows0, loader, pc, outcome, targets,
                plan, status, opi, schema, tx, round>>

\* settings.NAME
ReadSetting ==
    /\ pc = "settings"
    /\ \E name \in SettingNames : settings' = read_setting(settings, name).state
    /\ SettingsFrame

\* settings.NAME = value
SetSetting ==
    /\ pc = "settings"
    /\ \E name \in SettingNames, value \in SettingValues :
          settings' = __setattr__(settings, name, value)
    /\ SettingsFrame

\* del settings.NAME
DeleteSetting ==
    /\ pc = "settings"
    /\ \E name \in SettingNames : settings' = __delattr__(settings, name)
    /\ SettingsFrame

\* settings._wrapped = value
ReplaceWrapped ==
    /\ pc = "settings"
    /\ \E w \in Replacements : settings' = [set_wrapped(settings, w) EXCEPT !.raised = "none"]
    /\ SettingsFrame

\* settings.configure(**options)
Configure ==
    /\ pc = "settings"
    /\ \E opts \in ConfigureOptions : settings' = configure(settings, opts)
    /\ SettingsFrame

\* django.urls.set_script_prefix(prefix)
SetScriptPrefix ==
    /\ pc = "settings"
    /\ \E prefix \in ScriptPrefixes : settings' = [settings EXCEPT !.script_prefix = prefix]
    /\ SettingsFrame

NextSettings ==
    \/ ReadSetting
    \/ SetSetting
    \/ DeleteSetting
    \/ ReplaceWrapped
    \/ Configure
    \/ SetScriptPrefix

SpecSettings == InitSettings /\ [][NextSettings]_vars

(* The command while another actor uses the same database: after the
   executor's construction (build_graph has read the store) another migrate
   process applies or unapplies one unit and records it; its recorder call is
   the same calls to the database as any other, and the command's steps come
   between them. *)

\* the other process runs the unit's operations and enters the recorder call
OtherActor ==
    /\ pc = "loaded"
    /\ recorders = <<>>
    /\ \E k \in DOMAIN disk_migrations :
          LET back == rows[k] > 0
          IN /\ recorders' =
                   [p \in {"other"} |->
                       [pc |-> "call", seen |-> FALSE,
                        op |-> IF back THEN "record_unapplied" ELSE "record_applied",
                        key |-> k]]
             /\ schema' = IF back THEN schema \ Effects(disk_migrations, k)
                          ELSE schema \cup Effects(disk_migrations, k)
    /\ UNCHANGED <<calls, has_table, rows, culprit, config, discovered, stdout, settings,
                   disk_migrations, disk_order, options, rows0, loader, pc, outcome, targets,
                   plan, status, opi, tx, round>>

\* the recorder calls in progress without the command's own
Others ==
    IF DOMAIN recorders \subseteq {Command} THEN <<>>
    ELSE [p \in DOMAIN recorders \ {Command} |-> recorders[p]]

\* the operations of the entry are done and the executor calls record_applied
\* or record_unapplied, whose first statement is ensure_schema's has_table()
EntryHasTable ==
    /\ pc = "migrating"
    /\ Command \notin DOMAIN recorders
    /\ \E i \in Current :
          /\ opi = Len(disk_migrations[plan[i][1]].operations)
          /\ recorders' =
                [p \in DOMAIN recorders \cup {Command} |->
                    IF p = Command
                    THEN [pc |-> "checked", seen |-> has_table,
                          op |-> IF plan[i][2] THEN "record_unapplied" ELSE "record_applied",
                          key |-> plan[i][1]]
                    ELSE recorders[p]]
    /\ UNCHANGED <<calls, has_table, rows>>
    /\ RaceFrame

\* the command's create_model meets the table another process created after
\* the command's has_table(): MigrationSchemaMissing leaves record_applied, the
\* executor and handle; the entry is not recorded and what its transaction
\* holds is rolled back
RecordRaises ==
    /\ pc = "migrating"
    /\ Command \in DOMAIN recorders
    /\ recorders[Command].pc = "checked"
    /\ ~recorders[Command].seen
    /\ has_table
    /\ \E i \in Current : status' = [status EXCEPT ![i] = "FAILED"]
    /\ recorders' = Others
    /\ schema' = IF tx.open > 0 THEN tx.saved ELSE schema
    /\ tx' = release(tx)
    /\ pc' = "failed"
    /\ outcome' = "MigrationSchemaMissing"
    /\ UNCHANGED <<calls, culprit, config, discovered, stdout, settings, disk_migrations,
                   disk_order, options, has_table, rows, rows0, loader, targets, plan, opi,
                   round>>

\* the command's insert or delete after its ensure_schema: the entry ends
FinishRecorded ==
    /\ Command \in DOMAIN recorders
    /\ recorders[Command].pc = "ensured"
    /\ EntryRecorded(Others)

\* the command and the other process, one statement on the database at a time
NextConcurrent ==
    \/ Construct
    \/ CheckHistory
    \/ DetectConflicts
    \/ ComputePlan
    \/ StartEntry
    \/ ExecOp
    \/ FailOp
    \/ EntryHasTable
    \/ RecordRaises
    \/ FinishRecorded
    \/ MigrateDone
    \/ OtherActor
    \/ HasTable
    \/ EnsureSchema
    \/ CreateRow
    \/ DeleteRows

SpecConcurrent == InitLoad /\ [][NextConcurrent]_vars

SpecRoundTrip == Init /\ [][NextRoundTrip]_vars

TypeOK ==
    /\ pc \in {"discover", "start", "loaded", "checked", "clear", "migrating", "done",
              "failed", "error", "recorder", "planned", "exit", "settings"}
    /\ \A k \in Keys : rows[k] \in 0..MaxRows
    /\ pc # "discover" => disk_migrations = load_disk(discovered).disk
    /\ Len(status) = Len(plan)
    /\ opi \in 0..MaxOps
    /\ tx.open \in 0..1

-----------------------------------------------------------------------------
(* Properties *)

\* the plan of the command line has been computed
PlanComputed == pc \in {"migrating", "done", "failed"} /\ round = 1

PlanKeys == [i \in DOMAIN plan |-> plan[i][1]]

\* the applied set when the command started
Applied0 == {k \in Keys : rows0[k] > 0}

\* the command line names one migration
ConcreteTarget == options.app_label # None /\ options.migration_name \notin {None, "zero"}

CmdTarget == <<options.app_label, options.migration_name>>

BooksExample ==
    /\ {k \in DOMAIN disk_migrations : k[1] = "books"} = {B1, B2}
    /\ disk_migrations[B1].dependencies = <<>>
    /\ disk_migrations[B2].dependencies = <<B1>>

\* C1: for a single concrete target of the graph that is not applied, the plan
\* is exactly the not yet applied ancestors of the target and then the target,
\* every entry forward, no applied unit in it; for books 0001 <- 0002, nothing
\* applied and target (books, 0002) the plan is [(0001, forward), (0002, forward)]
C1_ForwardPlan ==
    /\ (/\ PlanComputed
        /\ ConcreteTarget
        /\ CmdTarget \in nodes(loader.graph)
        /\ CmdTarget \notin loader.applied_migrations)
       => /\ \A i \in DOMAIN plan : ~plan[i][2]
          /\ Range(PlanKeys) =
                (Ancestors(loader.graph, CmdTarget) \cup {CmdTarget}) \ loader.applied_migrations
          /\ Len(plan) = Cardinality(Range(PlanKeys))
          /\ plan[Len(plan)] = <<CmdTarget, FALSE>>
    /\ (/\ PlanComputed
        /\ BooksExample
        /\ Applied0 = {}
        /\ options.app_label = "books"
        /\ options.migration_name = "0002")
       => plan = <<<<B1, FALSE>>, <<B2, FALSE>>>>

C1_Witness ==
    /\ PlanComputed
    /\ ConcreteTarget
    /\ CmdTarget \in nodes(loader.graph)
    /\ CmdTarget \notin loader.applied_migrations
    /\ Ancestors(loader.graph, CmdTarget) \cap loader.applied_migrations # {}
    /\ Len(plan) >= 2

\* C2: a plan respects the partial order of the graph: a forward entry comes
\* after the forward entries of all its parents that are in the plan, a backward
\* entry after the backward entries of all its children that are in the plan
C2_PlanOrder ==
    PlanComputed =>
        \A i, j \in DOMAIN plan :
            /\ (/\ ~plan[i][2] /\ ~plan[j][2]
                /\ plan[j][1] \in parents(loader.graph, plan[i][1])) => j < i
            /\ (/\ plan[i][2] /\ plan[j][2]
                /\ plan[j][1] \in children(loader.graph, plan[i][1])) => j < i

\* a plan over both apps with a cross-app edge inside it
C2_Witness ==
    /\ PlanComputed
    /\ Len(targets) >= 2
    /\ \E i, j \in DOMAIN plan :
          /\ plan[j][1] \in parents(loader.graph, plan[i][1])
          /\ plan[j][1][1] = "books" /\ plan[i][1][1] = "auth"

\* C3: from an empty applied set, applying the entries of forwards_plan(target)
\* in order leaves exactly the ancestors of target and target recorded
C3_ForwardApply ==
    (/\ pc = "done" /\ round = 1
     /\ Applied0 = {}
     /\ ConcreteTarget
     /\ CmdTarget \in nodes(loader.graph)
     /\ PlanKeys = forwards_plan(loader.graph, CmdTarget))
    => applied_migrations(Store) = Ancestors(loader.graph, CmdTarget) \cup {CmdTarget}

C3_Witness ==
    /\ pc = "done" /\ round = 1
    /\ Applied0 = {}
    /\ ConcreteTarget
    /\ CmdTarget \in nodes(loader.graph)
    /\ PlanKeys = forwards_plan(loader.graph, CmdTarget)
    /\ Cardinality(Ancestors(loader.graph, CmdTarget)) >= 2

\* C4 as stated: executing a forward plan and then the same entries in
\* reversed order, each backward, restores the applied set, for any starting
\* applied set
C4_Original ==
    (pc = "done" /\ round = 2) => applied_migrations(Store) = Applied0

\* C4: executing a forward plan and then the same entries in reversed order,
\* each backward, restores the applied set, when no unit of the forward plan
\* was recorded in the store before it ran
C4_RoundTrip ==
    (pc = "done" /\ round = 2 /\ Range(PlanKeys) \cap Applied0 = {})
    => /\ applied_migrations(Store) = Applied0
       /\ rows = rows0

C4_Witness ==
    /\ pc = "done" /\ round = 2
    /\ Range(PlanKeys) \cap Applied0 = {}
    /\ Len(plan) >= 2
    /\ Applied0 # {}

\* the command line asks to revert an entire app
ZeroTarget == options.app_label # None /\ options.migration_name = "zero"

\* the applied units of the app of the command line
AppliedOfApp ==
    {k \in nodes(loader.graph) \cap loader.applied_migrations : k[1] = options.app_label}

\* the plan made of the backward plans from the applied leaves of the app
LeafPlan ==
    LET ls == SelectSeq(leaf_nodes(loader.graph, options.app_label),
                        LAMBDA k : k \in loader.applied_migrations)
    IN extend_backwards([plan |-> <<>>, applied |-> loader.applied_migrations],
                    loader.graph, ls, 1).plan

RevertsApp ==
    /\ \A i \in DOMAIN plan : plan[i][2]
    /\ AppliedOfApp \subseteq Range(PlanKeys)
    /\ Range(PlanKeys) \subseteq loader.applied_migrations
    /\ Len(plan) = Cardinality(Range(PlanKeys))
    /\ \A i \in DOMAIN plan :
          \A d \in Descendants(loader.graph, plan[i][1]) \cap loader.applied_migrations :
              \E j \in 1..(i - 1) : plan[j][1] = d

ZeroExample ==
    (/\ BooksExample /\ loader.applied_migrations = {B1, B2}
     /\ options.app_label = "books")
    => plan = <<<<B2, TRUE>>, <<B1, TRUE>>>>

BackwardTarget ==
    /\ PlanComputed
    /\ ConcreteTarget
    /\ CmdTarget \in nodes(loader.graph)
    /\ CmdTarget \in loader.applied_migrations
    /\ Descendants(loader.graph, CmdTarget) \cap loader.applied_migrations # {}

\* C6: for an applied concrete target with applied descendants the plan is
\* every applied descendant in reverse graph order (a unit after everything
\* applied that depends on it), down to and including the target, which comes
\* last, each entry backward and no unit twice
C6_BackwardPlan ==
    BackwardTarget
    => /\ \A i \in DOMAIN plan : plan[i][2]
       /\ Range(PlanKeys) =
             (Descendants(loader.graph, CmdTarget) \cap loader.applied_migrations)
                \cup {CmdTarget}
       /\ Len(plan) = Cardinality(Range(PlanKeys))
       /\ \A i \in DOMAIN plan :
             \A d \in Descendants(loader.graph, plan[i][1]) \cap loader.applied_migrations :
                 \E j \in 1..(i - 1) : plan[j][1] = d
       /\ plan[Len(plan)] = <<CmdTarget, TRUE>>

\* a rollback to a unit of auth that takes an applied unit of books with it
\* and leaves alone an unapplied unit that depends on the target
C6_Witness ==
    /\ BackwardTarget
    /\ Len(plan) >= 3
    /\ \E i \in DOMAIN plan : plan[i][1][1] # options.app_label
    /\ Descendants(loader.graph, CmdTarget) \ loader.applied_migrations # {}

\* what one target alone contributes
Single(t) == migration_plan(loader, <<t>>)

Before(s, x, y) == \E i, j \in DOMAIN s : i < j /\ s[i] = x /\ s[j] = y

\* the entries target k contributes: those of its own plan that no earlier
\* target had already contributed
Contributed(k) ==
    Range(Single(targets[k])) \ UNION {Range(Single(targets[j])) : j \in 1..(k - 1)}

\* C7: in the merged plan of several targets every unit appears at most once
\* and the entries each single target contributes keep their relative order
C7_Merge ==
    PlanComputed
    => /\ Len(plan) = Cardinality(Range(PlanKeys))
       /\ Range(plan) = UNION {Range(Single(targets[k])) : k \in DOMAIN targets}
       /\ \A k \in DOMAIN targets :
             \A x, y \in Contributed(k) :
                 Before(Single(targets[k]), x, y) => Before(plan, x, y)

\* two targets whose plans share a unit
C7_Witness ==
    /\ PlanComputed
    /\ \E a, b \in DOMAIN targets :
          /\ a < b
          /\ Range(Single(targets[a])) \cap Range(Single(targets[b])) # {}
          /\ Len(Single(targets[b])) >= 2

\* the target of the command line asks for nothing
Satisfied ==
    \/ /\ ConcreteTarget
       /\ prefix_results(disk_migrations, options.app_label, options.migration_name)
             = {CmdTarget}
       /\ CmdTarget \in nodes(loader.graph)
       /\ CmdTarget \in loader.applied_migrations
       /\ Ancestors(loader.graph, CmdTarget) \subseteq loader.applied_migrations
       /\ Descendants(loader.graph, CmdTarget) \cap loader.applied_migrations = {}
    \/ /\ ZeroTarget
       /\ \A k \in nodes(loader.graph) :
             k[1] = options.app_label =>
                ({k} \cup Descendants(loader.graph, k)) \cap loader.applied_migrations = {}

\* the target of the command line is on disk and not a node of the graph
Unreachable ==
    /\ ConcreteTarget
    /\ CmdTarget \in DOMAIN disk_migrations
    /\ CmdTarget \notin nodes(loader.graph)
    /\ ~InSeq(CmdTarget, loader.replacements)
    /\ prefix_results(disk_migrations, options.app_label, options.migration_name)
          = {CmdTarget}

\* C8: an already satisfied or unreachable target gives an empty plan and no
\* error; in particular so does an applied concrete target whose ancestors are
\* all applied and that has no applied descendant
C8_EmptyPlan ==
    [][(pc = "clear" /\ (Satisfied \/ Unreachable))
       => (pc' = "migrating" /\ plan' = <<>> /\ outcome' = "none")]_vars

C8_Witness ==
    /\ pc = "migrating"
    /\ ConcreteTarget
    /\ Satisfied
    /\ Ancestors(loader.graph, CmdTarget) # {}
    /\ Descendants(loader.graph, CmdTarget) # {}
    /\ plan = <<>>

\* the plan is being or has been executed
Executing == pc \in {"migrating", "done", "failed"} /\ round = 1

\* the entries that fully completed
Completed == {i \in DOMAIN status : Finished(status[i])}

\* C9: a unit is recorded (or its record removed) only after all its
\* operations succeeded; when an operation fails the record of that unit is
\* not changed, no later entry is started, and the store holds its content of
\* before the run changed by the entries that completed before the failing one
C9_RecordAfterSuccess ==
    /\ [](Executing =>
            /\ \A k \in Keys :
                  k \in applied_migrations(Store) <=>
                     IF \E i \in Completed : plan[i][1] = k
                     THEN \E i \in Completed : plan[i] = <<k, FALSE>>
                     ELSE k \in Applied0
            /\ \A i \in DOMAIN status \ Completed :
                  rows[plan[i][1]] = rows0[plan[i][1]]
            /\ pc = "failed" =>
                  \E f \in DOMAIN status :
                     /\ status[f] = "FAILED"
                     /\ \A j \in 1..(f - 1) : Finished(status[j])
                     /\ \A j \in (f + 1)..Len(status) : status[j] = "PENDING")
    /\ [][\A k \in Keys :
             rows'[k] # rows[k] =>
                \E i \in Current :
                   /\ plan[i][1] = k
                   /\ opi = Len(disk_migrations[k].operations)
                   /\ Finished(status'[i])]_vars

\* a run that failed in the second operation of its third entry
C9_Witness ==
    /\ pc = "failed" /\ round = 1
    /\ opi >= 1
    /\ \E f \in DOMAIN status :
          /\ status[f] = "FAILED"
          /\ f >= 3
          /\ f < Len(status)
          /\ ~plan[f][2]
          /\ plan[f][1] \notin applied_migrations(Store)

\* C10: entries run strictly one at a time in plan order: an entry only moves
\* PENDING -> IN_PROGRESS -> APPLIED, REVERTED or FAILED, at most one entry is
\* IN_PROGRESS, an entry starts only after all earlier entries are APPLIED or
\* REVERTED, and once an entry is FAILED no entry changes state again
C10_Sequential ==
    /\ [](Cardinality(Current) <= 1)
    /\ [][plan' = plan /\ round' = round =>
             \A i \in DOMAIN status :
                status'[i] # status[i] =>
                   \/ /\ status[i] = "PENDING" /\ status'[i] = "IN_PROGRESS"
                      /\ \A j \in 1..(i - 1) : Finished(status[j])
                   \/ /\ status[i] = "IN_PROGRESS"
                      /\ status'[i] \in {"APPLIED", "REVERTED", "FAILED"}]_vars
    /\ [][(\E i \in DOMAIN status : status[i] = "FAILED") => status' = status]_vars

C10_Witness ==
    /\ \E f \in DOMAIN status :
          /\ status[f] = "FAILED"
          /\ f >= 2
          /\ f < Len(status)
    /\ \E i \in DOMAIN status : status[i] = "REVERTED"

\* a backward entry whose unit has an operation without a reverse effect
IrreversibleEntry(i) == plan[i][2] /\ ~reversible(disk_migrations, plan[i][1])

\* C11 as stated: when a backward entry's unit has an operation without a
\* reverse effect the run aborts with the Irreversible outcome, distinct from
\* an operation failure, no reverse effect of the unit is executed and the
\* unit is not recorded as unapplied
C11_Original ==
    [][\A i \in Current :
          IrreversibleEntry(i) =>
             /\ schema' = schema
             /\ rows' = rows
             /\ status'[i] # status[i] =>
                   /\ status'[i] = "FAILED"
                   /\ pc' = "failed"
                   /\ outcome' = "IrreversibleError"]_vars

\* C11: when a backward entry of a run that is not in fake mode has a unit
\* with an operation without a reverse effect, the run aborts with the
\* Irreversible outcome, distinct from an operation failure, no reverse effect
\* of the unit is executed and the unit is not recorded as unapplied
C11_Irreversible ==
    [][\A i \in Current :
          (IrreversibleEntry(i) /\ ~options.fake) =>
             /\ schema' = schema
             /\ rows' = rows
             /\ status'[i] # status[i] =>
                   /\ status'[i] = "FAILED"
                   /\ pc' = "failed"
                   /\ outcome' = "IrreversibleError"
                   /\ outcome' # "OperationFailure"]_vars

\* a rollback aborted at its second entry, the first one reverted
C11_Witness ==
    /\ pc = "failed"
    /\ outcome = "IrreversibleError"
    /\ ~options.fake
    /\ \E f \in DOMAIN status :
          /\ status[f] = "FAILED"
          /\ f >= 2
          /\ status[f - 1] = "REVERTED"
          /\ Effects(disk_migrations, plan[f][1]) \subseteq schema
          /\ plan[f][1] \in applied_migrations(Store)

\* the rows a plan leaves when every entry is recorded: one more row for a
\* unit applied, none for a unit reverted
RecordedRows ==
    [k \in Keys |->
        IF \E i \in DOMAIN plan : plan[i] = <<k, FALSE>> THEN rows0[k] + 1
        ELSE IF \E i \in DOMAIN plan : plan[i] = <<k, TRUE>> THEN 0
        ELSE rows0[k]]

\* C12: in fake mode no operation effect is executed against the schema, and
\* the plan changes the store exactly as a real run of it does: a row added
\* for each forward entry, the rows deleted for each backward entry
C12_Fake ==
    /\ [][options.fake => schema' = schema]_vars
    /\ [](options.fake => pc # "failed")
    /\ []((pc = "done" /\ round = 1) => rows = RecordedRows)

\* a faked rollback of two units, one of them without a reverse effect
C12_Witness ==
    /\ pc = "done" /\ round = 1
    /\ options.fake
    /\ Len(plan) >= 2
    /\ \E i \in DOMAIN plan : IrreversibleEntry(i)
    /\ \A i \in DOMAIN plan : Effects(disk_migrations, plan[i][1]) \subseteq schema

\* fake_initial is the mode of the run
FakeInitialMode == options.fake_initial /\ ~options.fake

\* C13: in fake_initial mode an entry is applied as fake, recorded with none of
\* its operations executed, if and only if it applies the first migration of
\* an app and the probe reports that its table exists; every other entry
\* starts with all its operations to execute, and a migration that is not the
\* first of its app is applied only with all its operations executed
C13_FakeInitial ==
    /\ [][FakeInitialMode =>
            \A i \in DOMAIN status :
               (status[i] = "PENDING" /\ status'[i] = "IN_PROGRESS") =>
                  LET key == plan[i][1]
                      n == Len(disk_migrations[key].operations)
                  IN /\ opi' \in {0, n}
                     /\ opi' = n <=> /\ ~plan[i][2]
                                     /\ initial(disk_migrations, key)
                                     /\ table_exists(schema, key)]_vars
    /\ [][FakeInitialMode =>
            \A i \in Current :
               (status'[i] = "APPLIED" /\ ~initial(disk_migrations, plan[i][1])) =>
                  /\ opi = Len(disk_migrations[plan[i][1]].operations)
                  /\ Effects(disk_migrations, plan[i][1]) \subseteq schema']_vars
    /\ [](FakeInitialMode =>
            \A i \in Current :
               (opi > 0 /\ opi < Len(disk_migrations[plan[i][1]].operations)) =>
                  ~ (/\ ~plan[i][2]
                     /\ initial(disk_migrations, plan[i][1])
                     /\ tx.open > 0
                     /\ table_exists(tx.saved, plan[i][1])))

\* a run in fake_initial mode that recorded the first migration of books
\* without executing it and executed the second, whose table existed as well
C13_Witness ==
    /\ pc = "done" /\ round = 1
    /\ FakeInitialMode
    /\ plan = <<<<B1, FALSE>>, <<B2, FALSE>>>>
    /\ B1 \in applied_migrations(Store)
    /\ <<B1, 2>> \notin schema
    /\ Effects(disk_migrations, B2) \subseteq schema

\* C14: the scoped transaction of an entry is released when the entry ends,
\* in success, operation failure or irreversibility: none is open between
\* entries or after the run, and at most one is open at any time
C14_Transaction ==
    /\ [](tx.open <= 1)
    /\ [](tx.open > 0 => (pc = "migrating" /\ Cardinality(Current) = 1))
    /\ [](pc \in {"done", "failed"} => tx.open = 0)
    /\ [][\A i \in Current :
             status'[i] \in {"APPLIED", "REVERTED", "FAILED"} => tx'.open = 0]_vars

\* an atomic rollback aborted as irreversible after an entry that completed
C14_Witness ==
    /\ pc = "failed"
    /\ outcome = "IrreversibleError"
    /\ tx.open = 0
    /\ \E f \in DOMAIN status :
          /\ status[f] = "FAILED"
          /\ f >= 2
          /\ disk_migrations[plan[f][1]].atomic

\* build_graph has returned or raised
Loaded == pc \notin {"discover", "start"}

\* the squash units on disk
Squashes == {k \in DOMAIN disk_migrations : disk_migrations[k].replaces # <<>>}

Replaced(s) == Range(disk_migrations[s].replaces)

\* C15: after build_graph a squash key is in the loader's applied set if and
\* only if every key it replaces is in the applied set read from the store,
\* whether or not the squash key itself is recorded; the other keys are in the
\* loader's applied set exactly when they are recorded
C15_SquashApplied ==
    Loaded =>
       /\ \A s \in Squashes :
             s \in loader.applied_migrations <=> Replaced(s) \subseteq Applied0
       /\ \A k \in Keys \ Squashes :
             k \in loader.applied_migrations <=> k \in Applied0

\* a squash recorded in the store, one of the units it replaces not: the
\* loader does not hold it as applied
C15_Witness ==
    /\ pc = "loaded"
    /\ BS \in Applied0
    /\ B1 \in Applied0
    /\ B2 \notin Applied0
    /\ BS \notin loader.applied_migrations

\* the edges the migrations on disk declare, parent -> child
DeclaredEdges ==
    {<<p, c>> \in (DOMAIN disk_migrations) \X (DOMAIN disk_migrations) :
        p \in Range(disk_migrations[c].dependencies)}

\* all or none of what the squash replaces is applied
Substituted(s) == Replaced(s) \subseteq Applied0 \/ Replaced(s) \cap Applied0 = {}

\* the key that stands for k once s is substituted
Stand(s, k) == IF k \in Replaced(s) THEN s ELSE k

\* C16: when all or none of the keys a squash replaces are applied, after
\* build_graph the squash key is a node, none of the replaced keys is, and the
\* edges are the declared ones with every replaced endpoint turned into the
\* squash key, in the same direction, the edges inside the replaced set gone
C16_Substitute ==
    Loaded =>
       \A s \in Squashes :
          Substituted(s) =>
             /\ s \in nodes(loader.graph)
             /\ Replaced(s) \cap nodes(loader.graph) = {}
             /\ loader.graph.edges =
                   {<<Stand(s, e[1]), Stand(s, e[2])>> :
                      e \in {x \in DeclaredEdges :
                               ~ (x[1] \in Replaced(s) /\ x[2] \in Replaced(s))}}

\* nothing applied, auth 0002 depends on books 0001 and books 0002 on auth
\* 0001: after the substitution the squash has both a parent and a child
C16_Witness ==
    /\ pc = "checked"
    /\ Applied0 = {}
    /\ <<BS, A2>> \in loader.graph.edges
    /\ <<A1, BS>> \in loader.graph.edges
    /\ <<B1, A2>> \in DeclaredEdges
    /\ <<A1, B1>> \in DeclaredEdges
    /\ <<A1, BS>> \notin DeclaredEdges

\* some but not all of what the squash replaces is applied
Partial(s) == Replaced(s) \cap Applied0 # {} /\ ~ (Replaced(s) \subseteq Applied0)

\* the units that declared a dependency on key
Dependents(key) ==
    {c \in DOMAIN disk_migrations : key \in Range(disk_migrations[c].dependencies)}

Last(s) == disk_migrations[s].replaces[Len(disk_migrations[s].replaces)]

\* C17 as stated: when some but not all replaced keys of a squash are applied,
\* after build_graph the squash is not a node, every replaced unit on disk is
\* still a node, whatever other squashes are loaded with it, and every unit
\* that declared a dependency on the squash has the last replaced key as a parent
C17_Original ==
    (Loaded /\ loader.error = "ok") =>
       \A s \in Squashes :
          Partial(s) =>
             /\ s \notin nodes(loader.graph)
             /\ Replaced(s) \cap DOMAIN disk_migrations \subseteq nodes(loader.graph)
             /\ \A c \in Dependents(s) \cap nodes(loader.graph) :
                   Last(s) \in parents(loader.graph, c)

\* no squash that is substituted replaces a key that s replaces
Undisturbed(s) ==
    \A t \in Squashes \ {s} : Substituted(t) => Replaced(t) \cap Replaced(s) = {}

\* C17: when some but not all replaced keys of a squash are applied, after
\* build_graph the squash is not a node and, unless another squash that is
\* substituted replaces one of the same keys, every replaced unit on disk is
\* still a node and every unit that declared a dependency on the squash has
\* the last replaced key as a parent
C17_Partial ==
    (Loaded /\ loader.error = "ok") =>
       \A s \in Squashes :
          Partial(s) =>
             /\ s \notin nodes(loader.graph)
             /\ Undisturbed(s) =>
                   /\ Replaced(s) \cap DOMAIN disk_migrations \subseteq nodes(loader.graph)
                   /\ \A c \in Dependents(s) \cap nodes(loader.graph) :
                         Last(s) \in parents(loader.graph, c)

\* two squashes of the same two units loaded together, both partially
\* applied, and auth 0002 declared on one of them
C17_Witness ==
    /\ pc = "loaded"
    /\ loader.error = "ok"
    /\ Squashes = {BS, BT}
    /\ Partial(BS) /\ Partial(BT)
    /\ A2 \in Dependents(BS)
    /\ <<B2, A2>> \in loader.graph.edges
    /\ {B1, B2} \subseteq nodes(loader.graph)

\* the pairs <<child, parent>> of the graph that break the history: the child
\* is recorded, the parent is not, and the parent is not a squash whose
\* replaced keys are all recorded
Broken ==
    {<<m, q>> \in Keys \X Keys :
        /\ m \in Applied0 /\ m \in nodes(loader.graph)
        /\ q \in parents(loader.graph, m)
        /\ q \notin Applied0
        /\ ~ (q \in Squashes /\ Replaced(q) \subseteq Applied0)}

\* the history check has run
HistoryChecked == pc \notin {"discover", "start", "loaded"} /\ loader.error = "ok"

\* C18: check_consistent_history raises InconsistentMigrationHistory, naming
\* the applied child and the unapplied parent, if and only if some recorded key
\* that is a node of the graph has a parent that is not recorded and is not a
\* squash with all its replaced keys recorded; recorded keys that are not
\* nodes are skipped; the check changes neither the store nor the graph
C18_History ==
    /\ [](HistoryChecked =>
            /\ outcome = "InconsistentMigrationHistory" <=> Broken # {}
            /\ outcome = "InconsistentMigrationHistory" =>
                  (pc = "error" /\ culprit \in Broken))
    /\ [][pc = "loaded" =>
            (loader' = loader /\ rows' = rows /\ has_table' = has_table)]_vars

\* the history is accepted although auth 0002 is recorded and its parent, the
\* squash, is not: everything the squash replaces is recorded
C18_Witness ==
    /\ pc = "checked"
    /\ A2 \in Applied0
    /\ BS \in parents(loader.graph, A2)
    /\ BS \notin Applied0
    /\ {B1, B2} \subseteq Applied0

\* the names of the nodes of an app that no node of the same app depends on
LeafNames(a) ==
    {n[2] : n \in {k \in nodes(loader.graph) :
                     /\ k[1] = a
                     /\ \A c \in nodes(loader.graph) :
                          k \in parents(loader.graph, c) => c[1] # a}}

\* a sequence of names in strictly increasing order
Increasing(s) == \A i, j \in 1..Len(s) : i < j => StrRank(s[i]) < StrRank(s[j])

\* C19: detect_conflicts returns exactly the apps with more than one leaf, each
\* mapped to the sorted list of all the leaf names of that app; an app with one
\* leaf is never reported; the graph is left unchanged
C19_Conflicts ==
    /\ []((Loaded /\ loader.error = "ok") =>
            LET r == detect_conflicts(loader)
            IN /\ DOMAIN r = {a \in Apps : Cardinality(LeafNames(a)) > 1}
               /\ \A a \in DOMAIN r :
                     /\ Range(r[a]) = LeafNames(a)
                     /\ Len(r[a]) = Cardinality(LeafNames(a))
                     /\ Increasing(r[a]))
    /\ [][pc = "checked" =>
            /\ loader' = loader
            /\ pc' = "error" <=> DOMAIN detect_conflicts(loader) # {}]_vars

\* the command stopped on a conflict in books, both leaves listed in order,
\* while auth, with its single leaf, is not reported
C19_Witness ==
    /\ pc = "error" /\ outcome = "CommandError"
    /\ DOMAIN detect_conflicts(loader) = {"books"}
    /\ detect_conflicts(loader)["books"] = <<"0001", "0002">>
    /\ Cardinality(LeafNames("auth")) = 1

\* some app of the loaded graph has more than one leaf
Conflicting == DOMAIN detect_conflicts(loader) # {}

\* the command stopped in one of its two checks
StoppedByCheck ==
    /\ pc = "error" /\ loader.error = "ok"
    /\ \/ outcome = "InconsistentMigrationHistory"
       \/ outcome = "CommandError" /\ Conflicting

\* C20: in one run the history check and then conflict detection complete
\* before the plan is computed and before any store write or schema operation;
\* with an inconsistent history or conflicting leaves the command ends with an
\* error, no plan computed or executed and the store unchanged
C20_ChecksFirst ==
    /\ [](pc \in {"clear", "migrating", "done", "failed"} =>
            Broken = {} /\ ~Conflicting)
    /\ []((Loaded /\ loader.error = "ok" /\ (Broken # {} \/ Conflicting)) =>
            /\ pc \in {"loaded", "checked", "error"}
            /\ targets = <<>> /\ plan = <<>> /\ status = <<>>
            /\ rows = rows0)
    /\ [][/\ pc' = "checked" => pc = "loaded"
          /\ pc' = "clear" => pc = "checked"
          /\ (targets' # targets \/ plan' # plan) => pc = "clear"
          /\ (\/ rows' # rows \/ has_table' # has_table \/ schema' # schema
              \/ status' # status \/ tx' # tx) => pc \in {"clear", "migrating"}
          /\ StoppedByCheck => pc' = pc]_vars

\* a run that passed both checks and then wrote to the store
C20_Witness ==
    /\ pc = "done" /\ rows # rows0
    /\ Broken = {} /\ ~Conflicting

\* the graph was built without error
Built == Loaded /\ loader.error = "ok"

Sentinel(key) == key[2] \in {FIRST, LATEST}

\* the same-app dependencies a unit declares (a first-of-own-app reference is ignored)
InternalParents(k) ==
    {q \in Range(disk_migrations[k].dependencies) : q[1] = k[1] /\ q[2] # FIRST}

\* the units of an app without a same-app parent, and those without a same-app child
RootsOf(a) == {k \in DOMAIN disk_migrations : k[1] = a /\ InternalParents(k) = {}}

LeavesOf(a) ==
    {k \in DOMAIN disk_migrations :
        k[1] = a /\ \A c \in DOMAIN disk_migrations : k \notin InternalParents(c)}

Least(S) == CHOOSE x \in S : \A y \in S : y = x \/ KeyLess(x, y)

\* what a first/latest reference to an app with units stands for
Resolved(key) == Least(IF key[2] = FIRST THEN RootsOf(key[1]) ELSE LeavesOf(key[1]))

\* the node that carries a unit's edges in the built graph
Final(k) ==
    IF \E s \in Squashes : Substituted(s) /\ k \in Replaced(s)
    THEN CHOOSE s \in Squashes : Substituted(s) /\ k \in Replaced(s)
    ELSE k

\* the cross-app first/latest dependencies declared on disk: <<unit, reference>>
SentinelDeps ==
    {<<k, d>> \in (DOMAIN disk_migrations) \X (Apps \X {FIRST, LATEST}) :
        d \in Range(disk_migrations[k].dependencies) /\ d[1] # k[1]}

\* C21: a cross-app dependency on (app, __first__) is resolved to the root of
\* that app and one on (app, __latest__) to its leaf, as they are once the
\* same-app edges of every unit are in the graph; the literal edge is in the
\* graph that consistency and cycle validation accept, and no first/latest
\* key is a node of it
C21_Sentinels ==
    Built =>
       /\ \A n \in nodes(loader.graph) : ~Sentinel(n)
       /\ \A x \in SentinelDeps :
             <<Final(Resolved(x[2])), Final(x[1])>> \in loader.graph.edges

\* books 0001 depends on the latest of auth while auth 0002 depends on auth
\* 0001: the built graph has the edge from auth 0002 and none from auth 0001
C21_Witness ==
    /\ Built /\ pc = "loaded"
    /\ <<B1, <<"auth", LATEST>>>> \in SentinelDeps
    /\ InternalParents(A2) = {A1}
    /\ <<A2, B1>> \in loader.graph.edges
    /\ <<A1, B1>> \notin loader.graph.edges

\* every first/latest dependency declared on disk: <<unit, reference>>
AllSentinelDeps ==
    {<<k, d>> \in (DOMAIN disk_migrations) \X ((Apps \cup {Legacy}) \X {FIRST, LATEST}) :
        d \in Range(disk_migrations[k].dependencies)}

\* the store as the command found it
Store0 == [has_table |-> \E k \in Keys : rows0[k] > 0, rows |-> rows0]

\* the loader build_graph returns for the same disk with one dependency deleted
BuiltWithout(k, d) ==
    build_graph(config,
                [disk_migrations EXCEPT ![k].dependencies = SelectSeq(@, LAMBDA x : x # d)],
                disk_order, Store0, replace_migrations)

\* the reference adds no edge and raises no error: the result is the one of
\* the disk without it
Ignored(k, d) == loader = BuiltWithout(k, d)

\* the app has no unit on disk
NoUnits(a) == \A k \in DOMAIN disk_migrations : k[1] # a

\* some unit names a key of the app that is not on disk: a placeholder node of the app
Placeholder(a) ==
    \E c \in DOMAIN disk_migrations :
       \E x \in Range(disk_migrations[c].dependencies) \cup Range(disk_migrations[c].run_before) :
          x[1] = a /\ ~Sentinel(x) /\ x \notin DOMAIN disk_migrations

\* some first/latest reference names an app in which no unit on disk is a
\* root (leaf): the build may stop before validation
UnresolvableSentinel ==
    \E k \in DOMAIN disk_migrations :
       \E d \in Range(disk_migrations[k].dependencies) \cup Range(disk_migrations[k].run_before) :
          /\ Sentinel(d) /\ d[1] # k[1]
          /\ d[1] \notin config.unmigrated_apps
          /\ (IF d[2] = FIRST THEN RootsOf(d[1]) ELSE LeavesOf(d[1])) = {}

\* some first/latest reference to another app names an app that is not
\* installed, or a migrated app without nodes while ignore_no_migrations is
\* not set: check_key raises ValueError
StopsBuild ==
    \E k \in DOMAIN disk_migrations :
       \E d \in Range(disk_migrations[k].dependencies) \cup Range(disk_migrations[k].run_before) :
          /\ Sentinel(d) /\ d[1] # k[1]
          /\ \/ d[1] \notin config.migrated_apps \cup config.unmigrated_apps
             \/ /\ d[1] \in config.migrated_apps
                /\ NoUnits(d[1]) /\ ~Placeholder(d[1])
                /\ ~config.ignore_no_migrations

\* C22 as stated: a first/latest dependency fails with the unresolvable
\* dependency error when the target app is migrated without units (unless
\* ignore_no_migrations) or unknown; for an unmigrated target app or the
\* unit's own app no edge is added and no error raised
C22_Original ==
    Loaded =>
       \A x \in AllSentinelDeps :
          LET k == x[1]
              d == x[2]
          IN /\ d[1] = k[1] => Ignored(k, d)
             /\ (d[1] # k[1] /\ d[1] \in config.unmigrated_apps) => Ignored(k, d)
             /\ (d[1] # k[1] /\ d[1] \in config.migrated_apps /\ NoUnits(d[1])) =>
                   IF config.ignore_no_migrations THEN Ignored(k, d)
                   ELSE loader.error = "ValueError"
             /\ d[1] \notin config.migrated_apps \cup config.unmigrated_apps =>
                   loader.error = "ValueError"

\* C22: a cross-app first/latest dependency fails with ValueError when the
\* target app is unknown, or is migrated with no unit and no placeholder node
\* and ignore_no_migrations is not set; for an unmigrated target app, or a
\* migrated one without nodes when ignore_no_migrations is set, no edge is
\* added and no error raised. For the unit's own app a first dependency adds
\* no edge and raises no error, while a latest dependency becomes an edge to
\* a key that is never a unit and the build fails: with ValueError when a
\* first/latest reference to another app cannot be resolved, which the pass
\* over the cross-app references meets first, and with NodeNotFoundError
\* otherwise
C22_Unresolvable ==
    Loaded =>
       \A x \in AllSentinelDeps :
          LET k == x[1]
              d == x[2]
          IN /\ (d[1] = k[1] /\ d[2] = FIRST) => Ignored(k, d)
             /\ (d[1] = k[1] /\ d[2] = LATEST) =>
                   /\ d \in loader.graph.dummy
                   /\ loader.error \in {"ValueError", "NodeNotFoundError"}
                   /\ loader.error = "ValueError" => UnresolvableSentinel
                   /\ StopsBuild => loader.error = "ValueError"
             /\ (d[1] # k[1] /\ d[1] \in config.unmigrated_apps) => Ignored(k, d)
             /\ (/\ d[1] # k[1] /\ d[1] \in config.migrated_apps
                 /\ NoUnits(d[1]) /\ ~Placeholder(d[1])) =>
                   IF config.ignore_no_migrations THEN Ignored(k, d)
                   ELSE loader.error = "ValueError"
             /\ d[1] \notin config.migrated_apps \cup config.unmigrated_apps =>
                   loader.error = "ValueError"

\* a reference to the last unit of an app that has a migrations package but
\* no unit stopped the build, in which books 0001 had already got its edge from
\* the key (books, __latest__)
C22_Witness ==
    /\ Loaded /\ loader.error = "ValueError"
    /\ <<B2, <<Legacy, LATEST>>>> \in AllSentinelDeps
    /\ <<B1, <<"books", LATEST>>>> \in AllSentinelDeps
    /\ Legacy \in config.migrated_apps
    /\ ~config.ignore_no_migrations
    /\ ~Placeholder(Legacy)
    /\ <<"books", LATEST>> \in loader.graph.dummy

\* the keys units refer to that are not units on disk: same-app parents (a
\* latest of the own app included), literal cross-app parents and literal
\* run_before targets
MissingRefs ==
    {x \in UNION {InternalParents(k)
                  \cup {d \in Range(disk_migrations[k].dependencies) :
                           d[1] # k[1] /\ ~Sentinel(d)}
                  \cup {c \in Range(disk_migrations[k].run_before) : ~Sentinel(c)} :
                  k \in DOMAIN disk_migrations} :
        x \notin DOMAIN disk_migrations}

\* a squash that takes the place of what it replaces covers the key
ResolvedByReplacement(x) == \E s \in Squashes : Substituted(s) /\ x \in Replaced(s)

\* C23 as stated: when build_graph returns without error every node carries a
\* unit of the disk, no placeholder is left and both endpoints of every edge
\* are nodes; a dependency or run_before target that is neither on disk nor
\* covered by a substituted squash makes build_graph fail with NodeNotFoundError
C23_Original ==
    /\ Built =>
          /\ loader.graph.dummy = {}
          /\ nodes(loader.graph) \subseteq DOMAIN disk_migrations
          /\ \A e \in loader.graph.edges :
                e[1] \in nodes(loader.graph) /\ e[2] \in nodes(loader.graph)
    /\ (Loaded /\ \E x \in MissingRefs : ~ResolvedByReplacement(x)) =>
          loader.error = "NodeNotFoundError"

\* C23: when build_graph returns without error every node carries a unit of
\* the disk, no placeholder is left and both endpoints of every edge are
\* nodes; a dependency or run_before target that is neither on disk nor
\* covered by a substituted squash makes build_graph fail, with
\* NodeNotFoundError unless a first/latest reference already stopped the build
C23_Consistent ==
    /\ Built =>
          /\ loader.graph.dummy = {}
          /\ nodes(loader.graph) \subseteq DOMAIN disk_migrations
          /\ \A e \in loader.graph.edges :
                e[1] \in nodes(loader.graph) /\ e[2] \in nodes(loader.graph)
    /\ (Loaded /\ \E x \in MissingRefs : ~ResolvedByReplacement(x)) =>
          /\ loader.error # "ok"
          /\ ~UnresolvableSentinel => loader.error = "NodeNotFoundError"

\* auth 0002 depends on books 0002, which is not on disk; the squash takes
\* its place and the build returns with the edge from the squash
C23_Witness ==
    /\ Built
    /\ B2 \in MissingRefs /\ ResolvedByReplacement(B2)
    /\ BS \in nodes(loader.graph) /\ B2 \notin nodes(loader.graph)
    /\ <<BS, A2>> \in loader.graph.edges

\* some node of the edge set reaches itself
Cyclic(E) ==
    LET g == [node_map |-> {e[1] : e \in E} \cup {e[2] : e \in E}, dummy |-> {}, edges |-> E]
    IN \E k \in g.node_map : k \in Descendants(g, k)

\* the edges of a reported cycle, the closing one included
CycleEdges(q) ==
    {<<q[i], q[i + 1]>> : i \in 1..(Len(q) - 1)} \cup {<<q[Len(q)], q[1]>>}

\* the cycle check has run: nothing stopped the build before it
CycleChecked == Loaded /\ loader.error \in {"ok", "CircularDependency"}

\* C24: ensure_not_cyclic does not raise on an acyclic, fully resolved graph
\* and raises CircularDependency on a graph with a cycle, a self-loop, a
\* single back-edge or a cycle closed by squash rewiring included; the cycle
\* it reports is a cycle of the graph and contains every edge without which
\* the graph is acyclic; a graph build_graph returns has no cycle and no self-loop
C24_Acyclic ==
    /\ CycleChecked =>
          (loader.error = "CircularDependency" <=> Cyclic(loader.graph.edges))
    /\ (Loaded /\ loader.error = "CircularDependency") =>
          /\ Len(culprit) >= 1
          /\ CycleEdges(culprit) \subseteq loader.graph.edges
          /\ \A e \in loader.graph.edges :
                ~Cyclic(loader.graph.edges \ {e}) => e \in CycleEdges(culprit)
    /\ Built =>
          /\ ~Cyclic(loader.graph.edges)
          /\ \A k \in nodes(loader.graph) : <<k, k>> \notin loader.graph.edges

\* the edges the units declare are acyclic, the squash takes the place of
\* books 0001 and 0002 and closes a cycle with auth 0002, which is reported
C24_Witness ==
    /\ Loaded /\ loader.error = "CircularDependency"
    /\ ~Cyclic(DeclaredEdges)
    /\ CycleEdges(culprit) = {<<BS, A2>>, <<A2, BS>>}

\* the build failed in consistency or cycle validation
FailedValidation == Loaded /\ loader.error \in {"NodeNotFoundError", "CircularDependency"}

\* C25: after a build_graph that failed in consistency or cycle validation
\* the loader offers no graph with a placeholder node or a cycle
C25_NoPartialGraph ==
    FailedValidation =>
       /\ loader.graph.dummy = {}
       /\ ~Cyclic(loader.graph.edges)

\* a key is found in more than one place
Collision ==
    \E i, j \in DOMAIN discovered : i # j /\ discovered[i].key = discovered[j].key

\* C26: when two units found in different places have the same key, loading
\* fails with a LoadError; neither is silently merged with or put in place of
\* the other in the loaded units
C26_LoadError ==
    (pc # "discover" /\ Collision) => (pc = "error" /\ outcome = "LoadError")

\* the loaded units of an app whose name starts with the prefix
Matching(a, n) == {k \in DOMAIN disk_migrations : k[1] = a /\ startswith(k[2], n)}

\* the command line names a migration of books by a prefix (never "zero" here)
ByPrefix == options.app_label # None /\ options.migration_name \in Prefixes

\* C27: get_migration_by_prefix returns the one loaded unit of the app whose
\* name starts with the prefix, fails with AmbiguityError when more than one
\* name matches and with KeyError when none does; the command turns either
\* error into a CommandError and otherwise takes the unit as its target; the
\* lookup leaves the loaded units, the graph and the applied set unchanged
C27_Prefix ==
    /\ [](pc # "discover" =>
            \A a \in Apps, n \in Prefixes :
               LET r == get_migration_by_prefix(disk_migrations, a, n)
               IN /\ Cardinality(Matching(a, n)) = 1 =>
                        (r.error = "ok" /\ r.key \in Matching(a, n))
                  /\ Cardinality(Matching(a, n)) > 1 => r.error = "AmbiguityError"
                  /\ Matching(a, n) = {} => r.error = "KeyError")
    /\ []((ByPrefix /\ pc \in {"migrating", "done", "failed"}) =>
            /\ Cardinality(Matching(options.app_label, options.migration_name)) = 1
            /\ targets = sorted(Matching(options.app_label, options.migration_name)))
    /\ [][pc = "clear" =>
            /\ disk_migrations' = disk_migrations
            /\ loader' = loader
            /\ rows' = rows /\ has_table' = has_table
            /\ ByPrefix =>
                  /\ pc' = "error" <=>
                        Cardinality(Matching(options.app_label, options.migration_name)) # 1
                  /\ pc' = "error" => outcome' = "CommandError"]_vars

\* the prefix 0001_ names the squash alone, which became the target, although
\* books 0001 and the squash both start with 0001
C27_Witness ==
    /\ pc = "migrating"
    /\ options.migration_name = "0001_"
    /\ targets = <<BS>>
    /\ Cardinality(Matching("books", "0001")) = 2

\* C28: the store holds at most one record per (app_label, name)
C28_Unique == \A k \in Keys : rows[k] <= 1

\* the calls are made one after the other, on one connection
InSequence == DOMAIN recorders = {"first"}

\* C29: applied_migrations() contains a key exactly when the last recorder call
\* that touched the key was record_applied (a flush touches every key); it is
\* empty without the table; record_unapplied removes every row of its key and
\* leaves the rows of every other key as they were; of calls made one after
\* the other none ends in MigrationSchemaMissing, and the call that returned
\* last is the one the store shows
C29_RowMeansApplied ==
    /\ [](\A k \in Keys : k \in applied_migrations(Store) <=> calls.of[k] = "record_applied")
    /\ [](InSequence =>
            LET c == recorders["first"]
            IN /\ c.pc # "MigrationSchemaMissing"
               /\ c.pc = "done" /\ c.op # "ensure_schema" => calls.of[c.key] \in {c.op, "flush"}
               /\ c.pc = "done" => has_table)
    /\ [](~has_table => applied_migrations(Store) = {})
    /\ [][\A k \in Keys : calls' # calls /\ calls'.last = <<"record_unapplied", k>>
             => /\ rows'[k] = 0
                /\ \A j \in Keys \ {k} : rows'[j] = rows[j]]_vars

\* B1 was recorded twice and then unapplied, while A1 stays recorded
C29_Witness ==
    /\ InSequence
    /\ recorders["first"] = [pc |-> "done", seen |-> FALSE, op |-> "record_unapplied", key |-> B1]
    /\ calls.last = <<"record_unapplied", B1>>
    /\ calls.of[A1] = "record_applied"
    /\ rows[A1] = 2 /\ rows[B1] = 0
    /\ applied_migrations(Store) = {A1}

\* C30: the applied set the history check reads is the applied set the graph
\* was built with, also when another actor wrote to the store in between
\* (build_graph then rewrites the squashes' entries of its copy, so the two
\* reads of the store are compared)
C30_Snapshot ==
    /\ [][pc = "start" /\ pc' = "loaded" => applied_migrations(Store) = Applied0]_vars
    /\ [][pc = "loaded" /\ pc' # "loaded" => applied_migrations(Store) = Applied0]_vars

\* handle has worked out the plan
AfterPlan == pc \in {"exit", "planned", "migrating", "done", "failed"} /\ round = 1

\* a requested target, or one of its ancestors, is not applied
UnappliedExist ==
    \E i \in DOMAIN targets :
        /\ targets[i][2] # None
        /\ targets[i] \in nodes(loader.graph)
        /\ (Ancestors(loader.graph, targets[i]) \cup {targets[i]})
              \ loader.applied_migrations # {}

\* the database is as the command found it
Untouched ==
    /\ rows = rows0
    /\ calls = NoCalls
    /\ schema = UNION {Effects(disk_migrations, k) :
                         k \in {x \in DOMAIN disk_migrations : rows0[x] > 0}}
    /\ \A i \in DOMAIN status : status[i] = "PENDING"

\* the exit of --check comes before any execution or recording and is not the
\* outcome of an executed plan
C31_ExitEarly ==
    /\ outcome = "SystemExit(1)" => pc = "exit" /\ options.check_unapplied /\ Untouched
    /\ pc = "done" => outcome # "SystemExit(1)"

\* C31: with --check the command exits with a non-zero status exactly when
\* unapplied migrations exist for the requested targets, before any migration
\* is executed or recorded, and distinct from the outcome of an executed plan
C31_Check ==
    /\ (AfterPlan /\ options.check_unapplied)
          => (outcome = "SystemExit(1)" <=> UnappliedExist)
    /\ C31_ExitEarly

\* the --plan output has one entry per plan entry, in the plan's order, each
\* with one description per operation of its unit
DescribesEveryEntry ==
    /\ Len(stdout) = Len(plan)
    /\ \A i \in DOMAIN plan :
          /\ stdout[i].migration = plan[i][1]
          /\ stdout[i].backwards = plan[i][2]
          /\ Len(stdout[i].operations) = Len(disk_migrations[plan[i][1]].operations)

\* --plan describes every entry and ends without executing or recording
C32_Frame ==
    (AfterPlan /\ options.plan)
       => /\ pc \in {"planned", "exit"}
          /\ Untouched
          /\ DescribesEveryEntry

\* C32: in --plan mode every entry is described, nothing is executed or
\* written, and every operation of a backward entry that has no reverse effect
\* is annotated IRREVERSIBLE and flagged as an error, the description going on
C32_DryRun ==
    /\ C32_Frame
    /\ (AfterPlan /\ options.plan)
          => \A i \in DOMAIN plan :
                \A j \in DOMAIN disk_migrations[plan[i][1]].operations :
                    (plan[i][2] /\ ~disk_migrations[plan[i][1]].operations[j].reversible)
                       => /\ stdout[i].operations[j].action = "IRREVERSIBLE"
                          /\ stdout[i].operations[j].is_error

\* C34: every target handed to the plan computation is the revert-all marker
\* (app_label, None) or a node of the loader's graph
C34_TargetsAreNodes ==
    AfterPlan => \A i \in DOMAIN targets :
                    targets[i][2] = None \/ targets[i] \in nodes(loader.graph)

\* the unit the command line names, when the prefix lookup finds exactly one
Named == get_migration_by_prefix(disk_migrations, options.app_label, options.migration_name)

\* the command names a squash that build_graph took out of the graph as
\* partially applied
NamedPartialSquash ==
    /\ ConcreteTarget
    /\ Named.error = "ok"
    /\ Named.key \notin nodes(loader.graph)
    /\ InSeq(Named.key, loader.replacements)

LastReplaced(k) == disk_migrations[k].replaces[Len(disk_migrations[k].replaces)]

\* C35: naming a partially applied squash that is not in the graph, the
\* command takes the last element of its replaces list as target, and that
\* target is a node of the graph
C35_PartialSquashTarget ==
    (AfterPlan /\ NamedPartialSquash)
       => /\ targets = <<LastReplaced(Named.key)>>
          /\ targets[1] \in nodes(loader.graph)

\* the loader another processing order of the same units and store gives
Rebuilt(order) == build_graph(config, disk_migrations, order, Store, replace_migrations)

\* C36: every order of processing the squash units gives the same graph nodes
\* and edges and the same loader applied set
C36_OrderIndependent ==
    pc = "loaded"
       => \A order \in DiskOrders(disk_migrations) :
             /\ Rebuilt(order).error = loader.error
             /\ Rebuilt(order).graph = loader.graph
             /\ Rebuilt(order).applied_migrations = loader.applied_migrations

\* C37: whatever the order in which the units are taken in the pass that adds
\* the external edges, a first/latest dependency resolves to the same node, or
\* fails to resolve all the same
C37_SentinelOrder ==
    pc = "loaded"
       => \A order \in DiskOrders(disk_migrations) :
             /\ (Rebuilt(order).error = "ValueError") <=> (loader.error = "ValueError")
             /\ \A x \in SentinelDeps :
                   (Rebuilt(order).error = "ok" /\ loader.error = "ok")
                      => parents(Rebuilt(order).graph, x[1]) = parents(loader.graph, x[1])

\* C38: two concurrent record_applied calls for different migrations on a
\* database without the table both complete without error, and both records
\* are in the store
C38_BothRecorded ==
    (/\ DOMAIN recorders = Invocations
     /\ \A p \in Invocations : recorders[p].pc \notin {"call", "checked", "ensured"})
       => \A p \in Invocations :
             /\ recorders[p].pc = "done"
             /\ rows[recorders[p].key] > 0

\* the value the wrapped object holds for a name
Held(name) == wrapped_getattr(settings.wrapped, name)

\* what a read of the setting returns now
ReadNow(name) == read_setting(settings, name)

\* the script prefix a read of the name adds: the one in force when the value
\* was cached, the current one when it is not cached
PrefixOf(name) ==
    IF name \in DOMAIN settings.dict THEN settings.cached_with[name]
    ELSE settings.script_prefix

\* the name is special-cased by __getattr__ for the value held
Prefixed(name) == name \in {"MEDIA_URL", "STATIC_URL"} /\ Held(name) \notin {Absent, PyNone}

EmptySecret(name) == name = "SECRET_KEY" /\ Held(name) \in {<<>>, PyNone}

\* configure() on configured settings raises and changes nothing else
ConfigureOnce ==
    settings.wrapped.kind # "empty"
       => \A opts \in ConfigureOptions :
             configure(settings, opts) = [settings EXCEPT !.raised = "RuntimeError"]

\* the claim as stated: reading a setting returns the value the wrapped
\* object holds
C39_Original ==
    /\ settings.wrapped.kind # "empty"
          => \A name \in SettingNames : ReadNow(name).val = Held(name)
    /\ ConfigureOnce

\* C39: a cached value is never stale. Reading a setting returns the value the
\* wrapped object holds now, except that a MEDIA_URL that is not None and not
\* absolute comes with the script prefix of the read that cached it, and that
\* reading an empty SECRET_KEY raises and caches nothing; without a wrapped
\* object nothing is cached; configure() on configured settings raises
\* RuntimeError and changes nothing
C39_CacheFresh ==
    /\ settings.wrapped.kind # "empty"
          => \A name \in SettingNames :
                /\ (~Prefixed(name) /\ ~EmptySecret(name)) => ReadNow(name).val = Held(name)
                /\ Prefixed(name)
                      => ReadNow(name).val =
                            IF absolute(Held(name)) THEN Held(name)
                            ELSE PrefixOf(name) \o Held(name)
                /\ EmptySecret(name)
                      => /\ ReadNow(name).val = Absent
                         /\ ReadNow(name).state.raised = "ImproperlyConfigured"
                         /\ name \notin DOMAIN settings.dict
    /\ settings.wrapped.kind = "empty" => settings.dict = NoCache
    /\ ConfigureOnce

\* a relative MEDIA_URL was read and cached under one script prefix, the prefix
\* changed, STATIC_ROOT was set after a read and read again, SECRET_KEY was
\* deleted, and a second configure() was refused
C39_Witness ==
    /\ settings.wrapped.kind = "UserSettingsHolder"
    /\ settings.raised = "RuntimeError"
    /\ "MEDIA_URL" \in DOMAIN settings.dict
    /\ Held("MEDIA_URL") = <<"media/">>
    /\ settings.dict["MEDIA_URL"] = <<"/", "app/", "media/">>
    /\ settings.script_prefix = <<"/">>
    /\ "STATIC_ROOT" \in DOMAIN settings.dict
    /\ settings.dict["STATIC_ROOT"] = <<"media/">>
    /\ "SECRET_KEY" \in settings.wrapped.deleted

====
